---- MODULE Spec2Model ----
(***************************************************************************)
(* Model of the SLR data-extraction scripts:                               *)
(*   7_Data_Extraction/taxonomy_algo_query_prioritization.py               *)
(*   7_Data_Extraction/excel_to_bib.py                                     *)
(*   8_Data_Synthesis/metrics_report.py                                    *)
(*   8_Data_Synthesis/sut_report.py                                        *)
(*                                                                         *)
(* A Python str is a sequence of characters, each character a one-letter   *)
(* TLA+ string.  The two non-ASCII characters the scripts name are written *)
(* "U+FF06" (full-width ampersand) and "U+00B7" (middle dot); so are the  *)
(* double quote, backslash and backquote, by code point.  A missing        *)
(* cell (None / float nan) is the value NaN.  Canonical labels are TLA+    *)
(* strings; Chars gives the characters of a label.                         *)
(***************************************************************************)
EXTENDS Integers, Sequences, FiniteSets, TLC

VARIABLES
    prog,       \* which script (or which function under test) this run is
    pc,         \* position in the script
    table,      \* the DataFrame load_df returned: its rows, in order
    ncols,      \* df.shape[1], the number of columns of every row
    i,          \* number of rows the current loop has consumed
    filtered,   \* filter_ps_prioritization: the result list (row indices)
    pair_map,   \* build_pairs: (taxonomy, algorithm) -> list of paper ids
    obj_map,    \* build_pairs: paper id -> None / "one" / "multi"
    metric_to_papers,       \* metrics report: method -> metric -> list
    tax_metric_to_papers,   \* metrics report: method -> (taxonomy, metric) -> list
    per_method, \* SUT report: method -> category -> set of paper ids
    out,        \* the lines printed so far
    out_lines,  \* excel_to_bib: the entries built so far
    bib_file,   \* excel_to_bib: the text written to the .bib file
    cell,       \* argument of the function under test
    result,     \* its return value
    result2     \* return value of the second call made on it

reportVars == <<table, ncols, i, filtered, pair_map, obj_map, metric_to_papers,
                tax_metric_to_papers, per_method, out, out_lines, bib_file>>
pureVars == <<cell, result, result2>>
vars == <<prog, pc, reportVars, pureVars>>

(***************************************************************************)
(* Characters and str methods                                              *)
(***************************************************************************)
UPPER == <<"A","B","C","D","E","F","G","H","I","J","K","L","M","N","O","P","Q","R","S","T","U","V","W","X","Y","Z">>
LOWER == <<"a","b","c","d","e","f","g","h","i","j","k","l","m","n","o","p","q","r","s","t","u","v","w","x","y","z">>
DIGITS == <<"0","1","2","3","4","5","6","7","8","9">>
\* printable ASCII from code point 32 on, in code-point order
ASCII == <<" ","!">> \o <<"U+0022">> \o <<"#","$","%","&","'","(",")","*","+",",","-",".","/","0","1","2","3","4","5","6","7","8","9",":",";","<","=",">","?","@">> \o UPPER \o <<"[">> \o
         <<"U+005C">> \o <<"]","^","_">> \o <<"U+0060">> \o LOWER \o <<"{","|","}","~">>
AMP_FULLWIDTH == "U+FF06"
MIDDLE_DOT == "U+00B7"
WHITESPACE == {" ", "\t", "\n", "\r"}

NaN == <<"NaN">>
None == "None"

Range(f) == {f[x] : x \in DOMAIN f}
\* the list whose items are f[1], ..., f[n], built once
List(f) == SubSeq(f, 1, Len(f))
IndexOf(seq, c) == CHOOSE k \in 1..Len(seq) : seq[k] = c

\* ord(c) for the characters the model orders
Ord(c) ==
    IF c \in Range(ASCII) THEN 31 + IndexOf(ASCII, c)
    ELSE IF c = MIDDLE_DOT THEN 183
    ELSE IF c = AMP_FULLWIDTH THEN 65286
    ELSE IF c = "\t" THEN 9
    ELSE IF c = "\n" THEN 10
    ELSE 13

IsUpper(c) == c \in Range(UPPER)
IsLower(c) == c \in Range(LOWER)
IsDigit(c) == c \in Range(DIGITS)
\* \w of the re module
IsWord(c) == IsUpper(c) \/ IsLower(c) \/ IsDigit(c) \/ c = "_"

\* str.lower()
LowerChar(c) == IF IsUpper(c) THEN LOWER[IndexOf(UPPER, c)] ELSE c
Lower(s) == List([k \in 1..Len(s) |-> LowerChar(s[k])])

\* str.strip()
Strip(s) ==
    LET keep == {k \in 1..Len(s) : s[k] \notin WHITESPACE}
    IN  IF keep = {} THEN <<>>
        ELSE SubSeq(s, CHOOSE a \in keep : \A b \in keep : a <= b,
                       CHOOSE a \in keep : \A b \in keep : a >= b)

\* sub occurs in s at offset p (0-based)
OccursAt(sub, s, p) ==
    /\ p + Len(sub) <= Len(s)
    /\ \A k \in 1..Len(sub) : s[p + k] = sub[k]

\* the `in` operator on str
Contains(sub, s) == \E p \in 0..(Len(s) - Len(sub)) : OccursAt(sub, s, p)

\* str.replace(old, new) for a one-character old
ReplaceChar(s, old, new) == List([k \in 1..Len(s) |-> IF s[k] = old THEN new ELSE s[k]])

\* str(x) of a cell value
Str(x) == IF x = NaN THEN <<"n","a","n">> ELSE x

\* s < t in the str ordering of Python
RECURSIVE StrLess(_, _)
StrLess(s, t) ==
    IF t = <<>> THEN FALSE
    ELSE IF s = <<>> THEN TRUE
    ELSE IF Head(s) = Head(t) THEN StrLess(Tail(s), Tail(t))
    ELSE Ord(Head(s)) < Ord(Head(t))

\* sep.join(parts)
RECURSIVE Join(_, _)
Join(sep, parts) ==
    IF parts = <<>> THEN <<>>
    ELSE IF Len(parts) = 1 THEN parts[1]
    ELSE parts[1] \o sep \o Join(sep, Tail(parts))

\* concatenation of a sequence of strings
Flatten(parts) == Join(<<>>, parts)

NonEmptyStr(p) == p # <<>>
StripEach(parts) == List([k \in 1..Len(parts) |-> Strip(parts[k])])

(***************************************************************************)
(* Cell Normalizer                                                         *)
(***************************************************************************)
is_empty(x) ==
    IF x = NaN THEN TRUE ELSE Strip(Str(x)) = <<>>

\* the character class [;,\|/+·&]
SEPARATORS == {";", ",", "|", "/", "+", MIDDLE_DOT, "&"}

\* re.split(r"[seps]+", s): the pieces between maximal runs of separators
RECURSIVE re_split_from(_, _, _, _)
re_split_from(s, seps, k, piece) ==
    IF k > Len(s) THEN <<piece>>
    ELSE IF s[k] \in seps
         THEN IF k > 1 /\ s[k - 1] \in seps
              THEN re_split_from(s, seps, k + 1, piece)
              ELSE <<piece>> \o re_split_from(s, seps, k + 1, <<>>)
         ELSE re_split_from(s, seps, k + 1, Append(piece, s[k]))

re_split(s, seps) == re_split_from(s, seps, 1, <<>>)

\* split_multi without the replacement of the full-width ampersand
split_multi_keep_fullwidth(raw) ==
    IF is_empty(raw) THEN <<>>
    ELSE SelectSeq(StripEach(re_split(Str(raw), SEPARATORS)), NonEmptyStr)

split_multi(raw) ==
    IF is_empty(raw) THEN <<>>
    ELSE LET s == ReplaceChar(Str(raw), AMP_FULLWIDTH, "&")
             parts == re_split(s, SEPARATORS)
         IN  SelectSeq(StripEach(parts), NonEmptyStr)

\* `split_multi(s) or [s]`
tokens_or_whole(s) == IF split_multi(s) # <<>> THEN split_multi(s) ELSE <<s>>

(***************************************************************************)
(* Labels                                                                  *)
(***************************************************************************)
TAXONOMY_KEYS == <<"coverage", "requirement", "probability", "distribution",
                   "human", "clustering", "history", "model", "cost", "other">>
ALGO_KEYS == <<"heuristic", "meta", "graph", "dynamic", "ml", "greedy">>

PRIO_TAX_KEYS == TAXONOMY_KEYS
SEL_TAX_KEYS == <<"integer", "data-", "symbolic", "dynamic", "graph", "textual", "sdg",
                  "path", "modification", "firewall", "cluster", "design">>

\* the characters of each label
Chars ==
    ("coverage" :> <<"c","o","v","e","r","a","g","e">>) @@
    ("requirement" :> <<"r","e","q","u","i","r","e","m","e","n","t">>) @@
    ("probability" :> <<"p","r","o","b","a","b","i","l","i","t","y">>) @@
    ("distribution" :> <<"d","i","s","t","r","i","b","u","t","i","o","n">>) @@
    ("human" :> <<"h","u","m","a","n">>) @@
    ("clustering" :> <<"c","l","u","s","t","e","r","i","n","g">>) @@
    ("history" :> <<"h","i","s","t","o","r","y">>) @@
    ("model" :> <<"m","o","d","e","l">>) @@
    ("cost" :> <<"c","o","s","t">>) @@
    ("other" :> <<"o","t","h","e","r">>) @@
    ("integer" :> <<"i","n","t","e","g","e","r">>) @@
    ("data-" :> <<"d","a","t","a","-">>) @@
    ("symbolic" :> <<"s","y","m","b","o","l","i","c">>) @@
    ("dynamic" :> <<"d","y","n","a","m","i","c">>) @@
    ("graph" :> <<"g","r","a","p","h">>) @@
    ("textual" :> <<"t","e","x","t","u","a","l">>) @@
    ("sdg" :> <<"s","d","g">>) @@
    ("path" :> <<"p","a","t","h">>) @@
    ("modification" :> <<"m","o","d","i","f","i","c","a","t","i","o","n">>) @@
    ("firewall" :> <<"f","i","r","e","w","a","l","l">>) @@
    ("cluster" :> <<"c","l","u","s","t","e","r">>) @@
    ("design" :> <<"d","e","s","i","g","n">>) @@
    ("heuristic" :> <<"h","e","u","r","i","s","t","i","c">>) @@
    ("meta" :> <<"m","e","t","a">>) @@
    ("ml" :> <<"m","l">>) @@
    ("greedy" :> <<"g","r","e","e","d","y">>) @@
    ("APFD/NAPFD" :> <<"A","P","F","D","/","N","A","P","F","D">>) @@
    ("Code-Coverage" :> <<"C","o","d","e","-","C","o","v","e","r","a","g","e">>) @@
    ("Number of Faults Detected / FDR" :> <<"N","u","m","b","e","r"," ","o","f"," ","F","a","u","l","t","s"," ","D","e","t","e","c","t","e","d"," ","/"," ","F","D","R">>) @@
    ("Time-Based / Cost-Aware" :> <<"T","i","m","e","-","B","a","s","e","d"," ","/"," ","C","o","s","t","-","A","w","a","r","e">>) @@
    ("Precision/Recall/F-Measure" :> <<"P","r","e","c","i","s","i","o","n","/","R","e","c","a","l","l","/","F","-","M","e","a","s","u","r","e">>) @@
    ("Execution Time" :> <<"E","x","e","c","u","t","i","o","n"," ","T","i","m","e">>) @@
    ("Other" :> <<"O","t","h","e","r">>) @@
    ("Number of Test Cases / Ratio" :> <<"N","u","m","b","e","r"," ","o","f"," ","T","e","s","t"," ","C","a","s","e","s"," ","/"," ","R","a","t","i","o">>) @@
    ("Time-Based" :> <<"T","i","m","e","-","B","a","s","e","d">>) @@
    ("Safety / Fault-Detection Capability" :> <<"S","a","f","e","t","y"," ","/"," ","F","a","u","l","t","-","D","e","t","e","c","t","i","o","n"," ","C","a","p","a","b","i","l","i","t","y">>) @@
    ("prioritization" :> <<"p","r","i","o","r","i","t","i","z","a","t","i","o","n">>) @@
    ("selection" :> <<"s","e","l","e","c","t","i","o","n">>)

(***************************************************************************)
(* Label Matcher: algorithm families                                       *)
(***************************************************************************)
\* the labels one lower-cased token adds to found
algo_labels_no_suppression(lt) ==
    (IF Contains(<<"m","e","t","a">>, lt) THEN {"meta"} ELSE {}) \cup
    (IF Contains(<<"h","e","u","r","i","s","t","i","c">>, lt) THEN {"heuristic"} ELSE {}) \cup
    (IF Contains(<<"g","r","a","p","h">>, lt) THEN {"graph"} ELSE {}) \cup
    (IF Contains(<<"d","y","n","a","m","i","c">>, lt) THEN {"dynamic"} ELSE {}) \cup
    (IF Contains(<<"m","l">>, lt) \/ Contains(<<"m","a","c","h","i","n","e"," ","l","e","a","r","n","i","n","g">>, lt) THEN {"ml"} ELSE {}) \cup
    (IF Contains(<<"g","r","e","e","d","y">>, lt) THEN {"greedy"} ELSE {})

algo_labels_of_token(lt) ==
    (IF Contains(<<"m","e","t","a">>, lt) THEN {"meta"} ELSE {}) \cup
    (IF Contains(<<"h","e","u","r","i","s","t","i","c">>, lt) /\ ~Contains(<<"m","e","t","a">>, lt) THEN {"heuristic"} ELSE {}) \cup
    (IF Contains(<<"g","r","a","p","h">>, lt) THEN {"graph"} ELSE {}) \cup
    (IF Contains(<<"d","y","n","a","m","i","c">>, lt) THEN {"dynamic"} ELSE {}) \cup
    (IF Contains(<<"m","l">>, lt) \/ Contains(<<"m","a","c","h","i","n","e"," ","l","e","a","r","n","i","n","g">>, lt) THEN {"ml"} ELSE {}) \cup
    (IF Contains(<<"g","r","e","e","d","y">>, lt) THEN {"greedy"} ELSE {})

RECURSIVE algo_scan(_, _)
algo_scan(tokens, found) ==
    IF tokens = <<>> THEN found
    ELSE algo_scan(Tail(tokens), found \cup algo_labels_of_token(Lower(Head(tokens))))

match_algorithm_labels(cell_value) ==
    LET s == IF is_empty(cell_value) THEN <<>> ELSE Lower(Str(cell_value))
    IN  algo_scan(tokens_or_whole(s), {})

(***************************************************************************)
(* Label Matcher: metrics (metrics_report.py)                              *)
(***************************************************************************)
metrics_split_multi(raw) ==
    IF is_empty(raw) THEN <<>>
    ELSE LET s == ReplaceChar(Str(raw), AMP_FULLWIDTH, "&")
             parts == re_split(s, {";", ",", "|", "/", "+", MIDDLE_DOT, "/", "&"})
         IN  SelectSeq(StripEach(parts), NonEmptyStr)

PRIO_METRIC_CANON == <<"APFD/NAPFD", "Code-Coverage", "Number of Faults Detected / FDR",
                       "Time-Based / Cost-Aware", "Precision/Recall/F-Measure",
                       "Execution Time", "Other">>
SEL_METRIC_CANON == <<"Number of Test Cases / Ratio", "Time-Based",
                      "Precision/Recall/F-Measure",
                      "Safety / Fault-Detection Capability", "Other">>

\* A compiled pattern is the set of its alternatives: the literal texts the
\* pattern can match (optional parts expanded, `|` branches listed), each
\* with the \b it demands before and after.
Lit(s) == [pre |-> FALSE, lit |-> s, post |-> FALSE]
WordB(s) == [pre |-> TRUE, lit |-> s, post |-> TRUE]
EndB(s) == [pre |-> FALSE, lit |-> s, post |-> TRUE]
StartB(s) == [pre |-> TRUE, lit |-> s, post |-> FALSE]

\* \b holds at offset p of s: exactly one of the neighbours is a word character
WordBoundary(s, p) ==
    LET before == IF p >= 1 THEN IsWord(s[p]) ELSE FALSE
        after == IF p < Len(s) THEN IsWord(s[p + 1]) ELSE FALSE
    IN  before # after

alt_search(alt, s) ==
    \E p \in 0..(Len(s) - Len(alt.lit)) :
        /\ OccursAt(alt.lit, s, p)
        /\ alt.pre => WordBoundary(s, p)
        /\ alt.post => WordBoundary(s, p + Len(alt.lit))

\* rgx.search(s) is not None
rgx_search(rgx, s) == \E alt \in rgx : alt_search(alt, s)

PRIO_COMPILED ==
    ("APFD/NAPFD" :> <<
        {WordB(<<"a","p","f","d">>)},
        {WordB(<<"n","a","p","f","d">>)},
        {EndB(<<"n","o","r","m","a","l","i","z","e","d","-","a","p","f","d">>), EndB(<<"n","o","r","m","a","l","i","z","e","d","a","p","f","d">>)},
        {WordB(<<"a","p","f","d","c">>)},
        {WordB(<<"a","p","v","a">>)},
        {WordB(<<"a","f","d","p">>)},
        {WordB(<<"a","f","p","d">>)},
        {Lit(<<"a","v","e","r","a","g","e"," ","p","e","r","c","e","n","t","a","g","e"," ","o","f"," ","f","a","u","l","t","s"," ","d","e","t","e","c","t","e","d">>), Lit(<<"a","v","e","r","a","g","e"," ","p","e","r","c","e","n","t","a","g","e"," ","f","a","u","l","t","s"," ","d","e","t","e","c","t","e","d">>)}
    >>) @@
    ("Code-Coverage" :> <<
        {WordB(<<"a","p","b","c">>)},
        {WordB(<<"a","p","s","c">>)},
        {WordB(<<"a","p","f","c">>)}
    >>) @@
    ("Number of Faults Detected / FDR" :> <<
        {EndB(<<"f","a","u","l","t","s"," ","d","e","t","e","c","t","e","d">>), EndB(<<"f","a","u","l","t"," ","d","e","t","e","c","t","e","d">>)},
        {WordB(<<"f","d","r">>)},
        {Lit(<<"f","a","u","l","t"," ","d","e","t","e","c","t","i","o","n"," ","r","a","t","e">>)},
        {Lit(<<"h","i","g","h","-","s","e","v","e","r","i","t","y"," ","f","a","u","l","t","s"," ","d","e","t","e","c","t","e","d"," ","e","a","r","l","y">>), Lit(<<"h","i","g","h","s","e","v","e","r","i","t","y"," ","f","a","u","l","t","s"," ","d","e","t","e","c","t","e","d"," ","e","a","r","l","y">>)}
    >>) @@
    ("Time-Based / Cost-Aware" :> <<
        {Lit(<<"t","i","m","e"," ","t","o"," ","f","i","r","s","t"," ","f","a","i","l","u","r","e">>), WordB(<<"t","t","f","f">>)},
        {Lit(<<"m","e","a","n"," ","f","a","u","l","t"," ","d","e","t","e","c","t","i","o","n"," ","t","i","m","e">>), WordB(<<"m","t","f","d">>)},
        {Lit(<<"t","i","m","e"," ","t","o"," ","r","i","s","k"," ","d","e","t","e","c","t","i","o","n">>)},
        {Lit(<<"e","x","e","c","u","t","i","o","n"," ","c","o","s","t">>)},
        {Lit(<<"c","o","s","t","-","a","w","a","r","e"," ","a","p","f","d","c">>), Lit(<<"c","o","s","t","a","w","a","r","e"," ","a","p","f","d","c">>)},
        {Lit(<<"a","v","e","r","a","g","e"," ","p","e","r","c","e","n","t","a","g","e"," ","o","f"," ","f","a","u","l","t"," ","d","e","t","e","c","t","e","d"," ","p","e","r"," ","c","o","s","t">>)}
    >>) @@
    ("Precision/Recall/F-Measure" :> <<
        {WordB(<<"p","r","e","c","i","s","i","o","n">>)},
        {WordB(<<"r","e","c","a","l","l">>)},
        {EndB(<<"f","-","m","e","a","s","u","r","e">>), EndB(<<"f","m","e","a","s","u","r","e">>)},
        {WordB(<<"f","1","-","s","c","o","r","e">>), WordB(<<"f","1","s","c","o","r","e">>)}
    >>) @@
    ("Execution Time" :> <<
        {Lit(<<"p","r","i","o","r","i","t","i","z","a","t","i","o","n"," ","e","x","e","c","u","t","i","o","n"," ","t","i","m","e">>)},
        {Lit(<<"t","i","m","e"," ","f","o","r"," ","p","r","i","o","r","i","t","i","z","a","t","i","o","n">>)},
        {EndB(<<"e","x","e","c","u","t","i","o","n"," ","t","i","m","e"," ","p","e","r"," ","a","l","g","o","r","i","t","h","m">>), EndB(<<"e","x","e","c","u","t","i","o","n"," ","t","i","m","e">>)}
    >>)
PRIO_OTHER_COMPILED == <<
    {Lit(<<"k","e","n","d","a","l","l"," ","t","a","u">>)},
    {Lit(<<"r","e","d","u","n","d","a","n","c","y"," ","r","a","t","e">>)},
    {WordB(<<"h","y","p","e","r","v","o","l","u","m","e">>)},
    {WordB(<<"n","r","p","a">>)},
    {WordB(<<"n","d","c","g">>)},
    {Lit(<<"m","u","t","a","t","i","o","n"," ","s","c","o","r","e">>)},
    {Lit(<<"e","f","f","e","c","t","i","v","e","n","e","s","s"," ","o","n"," ","f","l","a","k","y"," ","t","e","s","t","s">>)},
    {WordB(<<"c","o","d","e"," ","c","o","v","e","r","a","g","e">>)},
    {Lit(<<"f","i","r","s","t","-","f","a","u","l","t"," ","p","o","s","i","t","i","o","n">>), Lit(<<"f","i","r","s","t","f","a","u","l","t"," ","p","o","s","i","t","i","o","n">>)},
    {Lit(<<"t","a","r","g","e","t"," ","t","e","s","t"," ","p","a","t","h"," ","f","i","n","d","i","n","g"," ","r","a","t","e">>)},
    {Lit(<<"h","a","m","m","i","n","g"," ","d","i","s","t","a","n","c","e">>)},
    {Lit(<<"#"," ","o","f"," ","t","e","s","t"," ","c","a","s","e","s"," ","e","x","e","c","u","t","e","d">>), Lit(<<"#","o","f"," ","t","e","s","t"," ","c","a","s","e","s"," ","e","x","e","c","u","t","e","d">>)},
    {Lit(<<"p","e","r","c","e","n","t","a","g","e"," ","o","f"," ","s","u","i","t","e"," ","r","u","n","n","e","d">>)}
>>
SEL_COMPILED ==
    ("Number of Test Cases / Ratio" :> <<
        {Lit(<<"n","u","m","e","r","o"," ","t","e","s","t"," ","s","e","l","e","z","i","o","n","a","t","i">>)},
        {Lit(<<"%"," ","d","i"," ","t","e","s","t"," ","s","e","l","e","z","i","o","n","a","t","i">>), Lit(<<"%","d","i"," ","t","e","s","t"," ","s","e","l","e","z","i","o","n","a","t","i">>)},
        {Lit(<<"#"," ","t","e","s","t","s"," ","s","e","l","e","c","t","e","d">>), Lit(<<"#"," ","t","e","s","t"," ","s","e","l","e","c","t","e","d">>), Lit(<<"#","t","e","s","t","s"," ","s","e","l","e","c","t","e","d">>), Lit(<<"#","t","e","s","t"," ","s","e","l","e","c","t","e","d">>)},
        {Lit(<<"s","e","l","e","c","t","e","d"," ","t","e","s","t"," ","r","a","t","i","o">>)},
        {Lit(<<"t","e","s","t"," ","s","u","i","t","e"," ","r","e","d","u","c","t","i","o","n">>)}
    >>) @@
    ("Time-Based" :> <<
        {Lit(<<"u","s","e","r","+","s","y","s","t","e","m"," ","e","x","e","c","u","t","i","o","n"," ","t","i","m","e">>)},
        {Lit(<<"t","e","s","t"," ","s","u","i","t","e"," ","e","x","e","c","u","t","i","o","n"," ","t","i","m","e">>)},
        {WordB(<<"t","i","m","e">>)},
        {WordB(<<"a","e"," ","t","i","m","e">>)},
        {WordB(<<"a","e","c"," ","t","i","m","e">>)},
        {Lit(<<"e","x","e","c","u","t","i","o","n"," ","t","i","m","e">>)}
    >>) @@
    ("Precision/Recall/F-Measure" :> <<
        {WordB(<<"p","r","e","c","i","s","i","o","n">>)},
        {WordB(<<"r","e","c","a","l","l">>)},
        {EndB(<<"f","-","m","e","a","s","u","r","e">>), EndB(<<"f","m","e","a","s","u","r","e">>)},
        {WordB(<<"p","r","e","c","i","s","i","o","n"," ","%">>), WordB(<<"p","r","e","c","i","s","i","o","n","%">>)}
    >>) @@
    ("Safety / Fault-Detection Capability" :> <<
        {WordB(<<"s","a","f","e","t","y">>)},
        {Lit(<<"s","a","f","e","t","y"," ","%">>)},
        {Lit(<<"f","a","u","l","t","-","d","e","t","e","c","t","i","o","n"," ","c","a","p","a","b","i","l","i","t","y">>), Lit(<<"f","a","u","l","t","d","e","t","e","c","t","i","o","n"," ","c","a","p","a","b","i","l","i","t","y">>)},
        {Lit(<<"f","a","u","l","t"," ","d","e","t","e","c","t","i","o","n"," ","a","b","i","l","i","t","y">>)},
        {Lit(<<"n","u","m","b","e","r"," ","o","f"," ","d","e","t","e","c","t","e","d"," ","f","a","u","l","t","s">>)},
        {Lit(<<"d","e","t","e","c","t","i","o","n"," ","e","f","f","e","c","t","i","v","e","n","e","s","s">>)}
    >>)
SEL_OTHER_COMPILED == <<
    {WordB(<<"h","y","p","e","r","v","o","l","u","m","e">>)},
    {Lit(<<"q","u","a","l","i","t","a","t","i","v","e","/","e","f","f","e","c","t","i","v","e","n","e","s","s">>), Lit(<<"q","u","a","l","i","t","a","t","i","v","e","e","f","f","e","c","t","i","v","e","n","e","s","s">>)},
    {Lit(<<"t","i","m","e"," ","s","a","v","i","n","g"," ","p","e","r","c","e","n","t","a","g","e">>)},
    {Lit(<<"s","i","z","e"," ","o","f"," ","t","h","e"," ","p","a","r","e","t","o"," ","f","r","o","n","t","i","e","r">>), Lit(<<"s","i","z","e"," ","o","f"," ","p","a","r","e","t","o"," ","f","r","o","n","t","i","e","r">>)},
    {Lit(<<"n","u","m","b","e","r"," ","o","f"," ","n","o","n","-","d","o","m","i","n","a","t","e","d"," ","s","o","l","u","t","i","o","n","s">>), Lit(<<"n","u","m","b","e","r"," ","o","f"," ","n","o","n","d","o","m","i","n","a","t","e","d"," ","s","o","l","u","t","i","o","n","s">>)},
    {Lit(<<"m","e","m","o","r","y"," ","c","o","n","s","u","m","p","t","i","o","n">>)}
>>

\* the order of PRIO_COMPILED.items() and SEL_COMPILED.items()
PRIO_COMPILED_KEYS == <<"APFD/NAPFD", "Code-Coverage", "Number of Faults Detected / FDR",
                        "Time-Based / Cost-Aware", "Precision/Recall/F-Measure",
                        "Execution Time">>
SEL_COMPILED_KEYS == <<"Number of Test Cases / Ratio", "Time-Based",
                       "Precision/Recall/F-Measure",
                       "Safety / Fault-Detection Capability">>

\* `for rgx in regex_list: if rgx.search(lt): ...; break`
any_search(regex_list, lt) ==
    \E k \in 1..Len(regex_list) : rgx_search(regex_list[k], lt)

\* the loop over compiled.items() for one token; st = (found, matched_any)
RECURSIVE canon_scan(_, _, _, _)
canon_scan(compiled, keys, lt, st) ==
    IF keys = <<>> THEN st
    ELSE canon_scan(compiled, Tail(keys), lt,
             IF any_search(compiled[Head(keys)], lt)
             THEN [found |-> st.found \cup {Head(keys)}, matched_any |-> TRUE]
             ELSE st)

metric_token_step_other_unguarded(compiled, keys, other, lt, found) ==
    LET st == canon_scan(compiled, keys, lt, [found |-> found, matched_any |-> FALSE])
    IN  IF any_search(other, lt) THEN st.found \cup {"Other"} ELSE st.found

\* the body of `for tok in tokens`
metric_token_step(compiled, keys, other, lt, found) ==
    LET st == canon_scan(compiled, keys, lt, [found |-> found, matched_any |-> FALSE])
    IN  IF ~st.matched_any /\ any_search(other, lt)
        THEN st.found \cup {"Other"}
        ELSE st.found

RECURSIVE metric_scan(_, _, _, _, _)
metric_scan(compiled, keys, other, tokens, found) ==
    IF tokens = <<>> THEN found
    ELSE metric_scan(compiled, keys, other, Tail(tokens),
             metric_token_step(compiled, keys, other, Lower(Head(tokens)), found))

\* `split_multi(text) or [text]`
metric_tokens(text) ==
    IF metrics_split_multi(text) # <<>> THEN metrics_split_multi(text) ELSE <<text>>

normalize_metrics_for_prioritization(cell_value) ==
    IF is_empty(cell_value) THEN {}
    ELSE metric_scan(PRIO_COMPILED, PRIO_COMPILED_KEYS, PRIO_OTHER_COMPILED,
                     metric_tokens(Str(cell_value)), {})

normalize_metrics_for_selection(cell_value) ==
    IF is_empty(cell_value) THEN {}
    ELSE metric_scan(SEL_COMPILED, SEL_COMPILED_KEYS, SEL_OTHER_COMPILED,
                     metric_tokens(Str(cell_value)), {})

(***************************************************************************)
(* Objective-count parser                                                  *)
(***************************************************************************)
\* re.findall(r"\d+", s): the maximal digit runs, left to right
RECURSIVE findall_digits_from(_, _, _)
findall_digits_from(s, k, run) ==
    IF k > Len(s) THEN (IF run = <<>> THEN <<>> ELSE <<run>>)
    ELSE IF IsDigit(s[k]) THEN findall_digits_from(s, k + 1, Append(run, s[k]))
    ELSE (IF run = <<>> THEN <<>> ELSE <<run>>) \o findall_digits_from(s, k + 1, <<>>)

findall_digits(s) == findall_digits_from(s, 1, <<>>)

\* int(n) of a digit string
RECURSIVE int(_)
int(n) ==
    IF n = <<>> THEN 0
    ELSE 10 * int(SubSeq(n, 1, Len(n) - 1)) + (IndexOf(DIGITS, n[Len(n)]) - 1)

nums_scan_first_run_only(nums) ==
    IF nums = <<>> THEN None
    ELSE IF int(Head(nums)) >= 2 THEN "multi"
    ELSE IF int(Head(nums)) = 1 THEN "one"
    ELSE None

\* `for n in nums`: the value returned inside the loop, None when it runs out
RECURSIVE nums_scan(_)
nums_scan(nums) ==
    IF nums = <<>> THEN None
    ELSE IF int(Head(nums)) >= 2 THEN "multi"
    ELSE IF int(Head(nums)) = 1 THEN "one"
    ELSE nums_scan(Tail(nums))

parse_objectives(cell_value) ==
    IF is_empty(cell_value) THEN None
    ELSE LET s == Lower(Strip(Str(cell_value)))
         IN  IF Contains(<<"o","n","e">>, s) \/ Contains(<<"s","i","n","g","l","e">>, s) \/ s = <<"1">> THEN "one"
             ELSE IF Contains(<<"m","u","l","t","u">>, s) \/ Contains(<<"m","u","l","t","i">>, s) THEN "multi"
             ELSE IF Contains(<<"t","w","o">>, s) \/ Contains(<<"t","h","r","e","e">>, s) THEN "multi"
             ELSE IF nums_scan(findall_digits(s)) # None THEN nums_scan(findall_digits(s))
             ELSE IF Contains(<<"o","b","j","e","c","t","i","v","e","s">>, s) \/ Contains(<<">">>, s) THEN "multi"
             ELSE "one"

(***************************************************************************)
(* Author-List Normalizer (excel_to_bib.py)                                *)
(***************************************************************************)
\* str.split(sep) for a one-character sep: every piece, empty ones included
RECURSIVE str_split_from(_, _, _, _)
str_split_from(s, sep, k, piece) ==
    IF k > Len(s) THEN <<piece>>
    ELSE IF s[k] = sep THEN <<piece>> \o str_split_from(s, sep, k + 1, <<>>)
    ELSE str_split_from(s, sep, k + 1, Append(piece, s[k]))

str_split(s, sep) == str_split_from(s, sep, 1, <<>>)

\* str.count(c)
Count(s, c) == Cardinality({k \in 1..Len(s) : s[k] = c})

\* str.strip(chars)
StripChars(s, chars) ==
    LET keep == {k \in 1..Len(s) : s[k] \notin chars}
    IN  IF keep = {} THEN <<>>
        ELSE SubSeq(s, CHOOSE a \in keep : \A b \in keep : a <= b,
                       CHOOSE a \in keep : \A b \in keep : a >= b)

\* re.sub(r"\s+", " ", s)
RECURSIVE collapse_ws_from(_, _)
collapse_ws_from(s, k) ==
    IF k > Len(s) THEN <<>>
    ELSE IF s[k] \in WHITESPACE
         THEN IF k > 1 /\ s[k - 1] \in WHITESPACE
              THEN collapse_ws_from(s, k + 1)
              ELSE <<" ">> \o collapse_ws_from(s, k + 1)
         ELSE <<s[k]>> \o collapse_ws_from(s, k + 1)

collapse_ws(s) == collapse_ws_from(s, 1)

\* the lookahead [^A-Z]*[a-z] matches at index k of s
lookahead_lower(s, k) ==
    \E j \in k..Len(s) :
        /\ IsLower(s[j])
        /\ \A m \in k..(j - 1) : ~IsUpper(s[m])

\* re.split(r",(?![^A-Z]*[a-z])", s)
RECURSIVE comma_split_from(_, _, _)
comma_split_from(s, k, piece) ==
    IF k > Len(s) THEN <<piece>>
    ELSE IF s[k] = "," /\ ~lookahead_lower(s, k + 1)
         THEN <<piece>> \o comma_split_from(s, k + 1, <<>>)
         ELSE comma_split_from(s, k + 1, Append(piece, s[k]))

AND_SEP == <<" ","a","n","d"," ">>

\* the pairs list built by `for i in range(0, len(comma_tokens), 2)`
RECURSIVE author_pairs(_)
author_pairs(comma_tokens) ==
    IF Len(comma_tokens) < 2 THEN <<>>
    ELSE LET last == comma_tokens[1]
             first == comma_tokens[2]
             rest == author_pairs(SubSeq(comma_tokens, 3, Len(comma_tokens)))
         IN  IF last # <<>> /\ first # <<>>
             THEN <<last \o <<","," ">> \o first>> \o rest
             ELSE rest

StripCommasEach(cands) == List([k \in 1..Len(cands) |-> StripChars(Strip(cands[k]), {","})])

\* the ' and ' branch returning the trimmed string as it is
normalize_author_list_no_collapse(raw) ==
    IF is_empty(raw) THEN <<>>
    ELSE LET s == Strip(Str(raw))
             comma_tokens == StripEach(str_split(s, ","))
             parts == SelectSeq(StripCommasEach(comma_split_from(s, 1, <<>>)), NonEmptyStr)
         IN  IF Contains(AND_SEP, s) THEN s
             ELSE IF Contains(<<";">>, s)
                  THEN Join(AND_SEP, SelectSeq(StripEach(str_split(s, ";")), NonEmptyStr))
             ELSE IF /\ Len(comma_tokens) >= 4 /\ Len(comma_tokens) % 2 = 0
                     /\ author_pairs(comma_tokens) # <<>>
                  THEN Join(AND_SEP, author_pairs(comma_tokens))
             ELSE IF Count(s, ",") >= 3 /\ Len(parts) > 1
                  THEN Join(AND_SEP, parts)
             ELSE s

normalize_author_list_no_fallthrough(raw) ==
    IF is_empty(raw) THEN <<>>
    ELSE LET s == Strip(Str(raw))
             comma_tokens == StripEach(str_split(s, ","))
             parts == SelectSeq(StripCommasEach(comma_split_from(s, 1, <<>>)), NonEmptyStr)
         IN  IF Contains(AND_SEP, s) THEN collapse_ws(s)
             ELSE IF Contains(<<";">>, s)
                  THEN Join(AND_SEP, SelectSeq(StripEach(str_split(s, ";")), NonEmptyStr))
             ELSE IF Len(comma_tokens) >= 4 /\ Len(comma_tokens) % 2 = 0
                  THEN Join(AND_SEP, author_pairs(comma_tokens))
             ELSE IF Count(s, ",") >= 3 /\ Len(parts) > 1
                  THEN Join(AND_SEP, parts)
             ELSE s

normalize_author_list(raw) ==
    IF is_empty(raw) THEN <<>>
    ELSE LET s == Strip(Str(raw))
             comma_tokens == StripEach(str_split(s, ","))
             parts == SelectSeq(StripCommasEach(comma_split_from(s, 1, <<>>)), NonEmptyStr)
         IN  IF Contains(AND_SEP, s) THEN collapse_ws(s)
             ELSE IF Contains(<<";">>, s)
                  THEN Join(AND_SEP, SelectSeq(StripEach(str_split(s, ";")), NonEmptyStr))
             ELSE IF /\ Len(comma_tokens) >= 4 /\ Len(comma_tokens) % 2 = 0
                     /\ author_pairs(comma_tokens) # <<>>
                  THEN Join(AND_SEP, author_pairs(comma_tokens))
             ELSE IF Count(s, ",") >= 3 /\ Len(parts) > 1
                  THEN Join(AND_SEP, parts)
             ELSE s

(***************************************************************************)
(* SUT Origin Classifier (sut_report.py)                                   *)
(***************************************************************************)
CATEGORY_ORDER == <<"SIR", "Defects4J", "Apache Projects", "Industrial / Proprietary",
                    "Other Public Repositories">>

FirstIndexOf(s, c) == CHOOSE k \in 1..Len(s) : s[k] = c /\ \A m \in 1..(k - 1) : s[m] # c

\* the body of `for p in parts`: the tokens the pieces give, in order
RECURSIVE sut_piece_tokens(_)
sut_piece_tokens(parts) ==
    IF parts = <<>> THEN <<>>
    ELSE LET p == Strip(Head(parts))
             rest == sut_piece_tokens(Tail(parts))
         IN  IF p = <<>> THEN rest
             ELSE IF ":" \in Range(p)
                  THEN LET c == FirstIndexOf(p, ":")
                           lhs == Strip(SubSeq(p, 1, c - 1))
                           rhs == Strip(SubSeq(p, c + 1, Len(p)))
                           rhs_parts == re_split(rhs, SEPARATORS)
                       IN  (IF lhs # <<>> THEN <<lhs>> ELSE <<>>) \o
                           SelectSeq(StripEach(rhs_parts), NonEmptyStr) \o rest
                  ELSE <<p>> \o rest

\* "Deduplicate while preserving order", case-insensitively
RECURSIVE sut_dedup(_, _)
sut_dedup(tokens, seen) ==
    IF tokens = <<>> THEN <<>>
    ELSE LET tl == Strip(Head(tokens))
         IN  IF tl # <<>> /\ Lower(tl) \notin seen
             THEN <<tl>> \o sut_dedup(Tail(tokens), seen \cup {Lower(tl)})
             ELSE sut_dedup(Tail(tokens), seen)

sut_split_multi(raw) ==
    IF is_empty(raw) THEN <<>>
    ELSE LET s == ReplaceChar(ReplaceChar(ReplaceChar(Str(raw), AMP_FULLWIDTH, "&"),
                                          "\n", " "), "\r", " ")
         IN  sut_dedup(sut_piece_tokens(re_split(s, SEPARATORS)), {})

SIR_PROGRAMS == {
    <<"p","r","i","n","t","_","t","o","k","e","n","s">>, <<"p","r","i","n","t"," ","t","o","k","e","n","s">>, <<"p","r","i","n","t","_","t","o","k","e","n","s"," ","2">>, <<"p","r","i","n","t"," ","t","o","k","e","n","s"," ","2">>,
    <<"f","l","e","x">>, <<"g","r","e","p">>, <<"s","e","d">>, <<"s","p","a","c","e">>, <<"g","z","i","p">>, <<"n","a","n","o","-","x","m","l">>, <<"n","a","n","o"," ","x","m","l">>,
    <<"x","m","l","-","s","e","c","u","r","i","t","y">>, <<"x","m","l"," ","s","e","c","u","r","i","t","y">>, <<"a","n","t">>, <<"j","t","o","p","a","s">>, <<"r","e","p","l","a","c","e">>,
    <<"s","c","h","e","d","u","l","e">>, <<"s","c","h","e","d","u","l","e","2">>, <<"t","c","a","s">>, <<"t","o","t","i","n","f","o">>
}
SIR_MARKERS == {
    <<"s","i","r">>
}
DEFECTS4J_PROJECTS == {
    <<"c","h","a","r","t">>, <<"j","f","r","e","e","c","h","a","r","t">>, <<"c","l","o","s","u","r","e">>, <<"m","a","t","h">>, <<"c","o","m","m","o","n","s","-","m","a","t","h">>,
    <<"c","o","m","m","o","n","s"," ","m","a","t","h">>, <<"l","a","n","g">>, <<"c","o","m","m","o","n","s","-","l","a","n","g">>, <<"c","o","m","m","o","n","s"," ","l","a","n","g">>, <<"t","i","m","e">>,
    <<"j","o","d","a","-","t","i","m","e">>, <<"j","o","d","a"," ","t","i","m","e">>, <<"m","o","c","k","i","t","o">>, <<"c","l","i">>, <<"c","o","m","m","o","n","s","-","c","l","i">>,
    <<"c","o","m","m","o","n","s"," ","c","l","i">>, <<"c","o","d","e","c">>, <<"c","o","m","m","o","n","s","-","c","o","d","e","c">>, <<"c","o","m","m","o","n","s"," ","c","o","d","e","c">>,
    <<"c","o","l","l","e","c","t","i","o","n","s">>, <<"c","o","m","m","o","n","s","-","c","o","l","l","e","c","t","i","o","n","s">>, <<"c","o","m","m","o","n","s"," ","c","o","l","l","e","c","t","i","o","n","s">>,
    <<"c","o","m","p","r","e","s","s">>, <<"c","o","m","m","o","n","s","-","c","o","m","p","r","e","s","s">>, <<"c","o","m","m","o","n","s"," ","c","o","m","p","r","e","s","s">>, <<"g","s","o","n">>,
    <<"j","s","o","u","p">>, <<"j","x","p","a","t","h">>
}
DEFECTS4J_MARKERS == {
    <<"d","e","f","e","c","t","s","4","j">>, <<"d","e","f","e","c","t","4","j">>, <<"d","e","f","e","c","t","s"," ","4","j">>
}
APACHE_PROJECTS == {
    <<"a","n","t">>, <<"j","m","e","t","e","r">>, <<"t","o","m","c","a","t">>, <<"c","a","m","e","l">>, <<"c","o","m","m","o","n","s","-","m","a","t","h">>,
    <<"c","o","m","m","o","n","s"," ","l","a","n","g">>, <<"c","o","m","m","o","n","s","-","l","a","n","g">>, <<"c","o","m","m","o","n","s","-","i","o">>, <<"c","o","m","m","o","n","s"," ","i","o">>,
    <<"c","o","m","m","o","n","s","-","c","l","i">>, <<"c","o","m","m","o","n","s"," ","c","l","i">>, <<"c","o","m","m","o","n","s","-","c","o","d","e","c">>, <<"c","o","m","m","o","n","s"," ","c","o","d","e","c">>,
    <<"c","o","m","m","o","n","s","-","c","o","l","l","e","c","t","i","o","n","s">>, <<"c","o","m","m","o","n","s"," ","c","o","l","l","e","c","t","i","o","n","s">>, <<"c","o","m","m","o","n","s","-","c","o","m","p","r","e","s","s">>,
    <<"c","o","m","m","o","n","s"," ","c","o","m","p","r","e","s","s">>, <<"s","t","r","u","t","s">>, <<"h","a","d","o","o","p">>, <<"s","p","a","r","k">>, <<"j","f","r","e","e","c","h","a","r","t">>,
    <<"x","m","l","-","s","e","c","u","r","i","t","y">>, <<"x","m","l"," ","s","e","c","u","r","i","t","y">>
}
APACHE_MARKERS == {
    <<"a","p","a","c","h","e">>, <<"a","p","a","c","h","e"," ","s","o","f","t","w","a","r","e"," ","f","o","u","n","d","a","t","i","o","n">>, <<"a","s","f">>
}
INDUSTRIAL_MARKERS == {
    <<"i","n","d","u","s","t","r","i","a","l">>, <<"p","r","o","p","r","i","e","t","a","r","y">>, <<"c","o","m","p","a","n","y">>, <<"i","n","d","u","s","t","r","y">>, <<"c","i","s","c","o">>,
    <<"a","b","b">>, <<"a","b","b"," ","r","o","b","o","t","i","c","s">>, <<"o","m","i","c","r","o","n">>, <<"s","i","e","m","e","n","s">>, <<"b","o","s","c","h">>,
    <<"g","o","o","g","l","e"," ","o","p","e","n"," ","s","o","u","r","c","e"," ","d","a","t","a"," ","s","e","t">>, <<"g","o","o","g","l","e"," ","o","p","e","n"," ","s","o","u","r","c","e"," ","d","a","t","a","s","e","t">>,
    <<"g","o","o","g","l","e"," ","o","p","e","n","-","s","o","u","r","c","e"," ","d","a","t","a"," ","s","e","t">>, <<"g","o","o","g","l","e"," ","d","a","t","a","s","e","t">>
}
OTHER_PUBLIC_SET == {
    <<"n","o","p","c","o","m","m","e","r","c","e">>, <<"u","m","b","r","a","c","o">>, <<"j","e","d","i","t">>, <<"f","r","e","e","m","i","n","d">>, <<"k","9","-","m","a","i","l">>,
    <<"k","9"," ","m","a","i","l">>, <<"o","p","e","n"," ","s","u","d","o","k","u">>, <<"o","p","e","n","-","s","u","d","o","k","u">>, <<"t","c","p","-","c","i","-","d","a","t","a","s","e","t">>,
    <<"t","c","p"," ","c","i"," ","d","a","t","a","s","e","t">>
}
OTHER_PUBLIC_MARKERS == {
    <<"o","p","e","n"," ","s","o","u","r","c","e"," ","d","a","t","a","s","e","t">>, <<"p","u","b","l","i","c"," ","d","a","t","a","s","e","t">>, <<"d","a","t","a","s","e","t"," ","p","u","b","b","l","i","c","o">>,
    <<"o","p","e","n"," ","d","a","t","a","s","e","t">>
}

to_lc(x) == Lower(Strip(x))

any_token_contains(lc_tokens, patterns) ==
    \E k \in 1..Len(lc_tokens) : \E p \in patterns : Contains(p, lc_tokens[k])

any_token_equals_or_contains(lc_tokens, names) ==
    \E k \in 1..Len(lc_tokens) :
        \E p \in names : p = lc_tokens[k] \/ Contains(p, lc_tokens[k])

\* the condition of the `if` that adds category cat
sut_test(cat, lc_tokens) ==
    CASE cat = "SIR" ->
             \/ any_token_contains(lc_tokens, SIR_MARKERS)
             \/ any_token_equals_or_contains(lc_tokens, SIR_PROGRAMS)
      [] cat = "Defects4J" ->
             \/ any_token_contains(lc_tokens, DEFECTS4J_MARKERS)
             \/ any_token_equals_or_contains(lc_tokens, DEFECTS4J_PROJECTS)
      [] cat = "Apache Projects" ->
             \/ any_token_contains(lc_tokens, APACHE_MARKERS)
             \/ any_token_equals_or_contains(lc_tokens, APACHE_PROJECTS)
      [] cat = "Industrial / Proprietary" ->
             any_token_contains(lc_tokens, INDUSTRIAL_MARKERS)
      [] cat = "Other Public Repositories" ->
             \/ any_token_equals_or_contains(lc_tokens, OTHER_PUBLIC_SET)
             \/ any_token_contains(lc_tokens, OTHER_PUBLIC_MARKERS)

\* the value of each category's test, in CATEGORY_ORDER
sut_tests(lc_tokens) ==
    <<sut_test("SIR", lc_tokens), sut_test("Defects4J", lc_tokens),
      sut_test("Apache Projects", lc_tokens),
      sut_test("Industrial / Proprietary", lc_tokens),
      sut_test("Other Public Repositories", lc_tokens)>>

CategoryIndex(cat) == CHOOSE k \in 1..Len(CATEGORY_ORDER) : CATEGORY_ORDER[k] = cat

\* the five `if <test>: cats.add(<category>)` statements, run in `order`;
\* fires is the value of each test
RECURSIVE categorize_in_order(_, _, _)
categorize_in_order(order, fires, cats) ==
    IF order = <<>> THEN cats
    ELSE categorize_in_order(Tail(order), fires,
             IF fires[CategoryIndex(Head(order))] THEN cats \cup {Head(order)} ELSE cats)

\* "Fallback: if tokens exist but none matched"
sut_fallback(cats, lc_tokens) ==
    IF cats = {} /\ lc_tokens # <<>> THEN cats \cup {"Other Public Repositories"} ELSE cats

categorize_tests_in(order, tokens) ==
    LET lc_tokens == List([k \in 1..Len(tokens) |-> to_lc(tokens[k])])
    IN  sut_fallback(categorize_in_order(order, sut_tests(lc_tokens), {}), lc_tokens)

\* the categories as a priority chain: only the first test that fires counts
categorize_sut_tokens_first_only(tokens) ==
    LET lc_tokens == List([k \in 1..Len(tokens) |-> to_lc(tokens[k])])
        hit == {k \in 1..Len(CATEGORY_ORDER) : sut_test(CATEGORY_ORDER[k], lc_tokens)}
    IN  sut_fallback({CATEGORY_ORDER[k] : k \in {a \in hit : \A b \in hit : a <= b}},
                     lc_tokens)

categorize_sut_tokens(tokens) == categorize_tests_in(CATEGORY_ORDER, tokens)

(***************************************************************************)
(* Taxonomy matcher                                                        *)
(***************************************************************************)
RECURSIVE taxonomy_scan(_, _, _)
taxonomy_scan(tokens, tax_keys, found) ==
    IF tokens = <<>> THEN found
    ELSE taxonomy_scan(Tail(tokens), tax_keys,
             found \cup {key \in Range(tax_keys) : Contains(Chars[key], Lower(Head(tokens)))})

\* metrics_report.py: match_taxonomy_labels(cell_value, tax_keys)
metrics_match_taxonomy_labels(cell_value, tax_keys) ==
    LET s == IF is_empty(cell_value) THEN <<>> ELSE Lower(Str(cell_value))
    IN  taxonomy_scan(IF metrics_split_multi(s) # <<>> THEN metrics_split_multi(s) ELSE <<s>>,
                      tax_keys, {})

\* taxonomy_algo_query_prioritization.py: match_taxonomy_labels(cell_value)
match_taxonomy_labels(cell_value) ==
    LET s == IF is_empty(cell_value) THEN <<>> ELSE Lower(Str(cell_value))
    IN  taxonomy_scan(tokens_or_whole(s), TAXONOMY_KEYS, {})

(***************************************************************************)
(* Aggregator                                                              *)
(***************************************************************************)
\* str(n) for n >= 0
RECURSIVE str_of_int(_)
str_of_int(n) ==
    IF n < 10 THEN <<DIGITS[n + 1]>>
    ELSE str_of_int(n \div 10) \o <<DIGITS[(n % 10) + 1]>>

\* the id numbered from the zero-based index itself
paper_id_from_index_zero_based(idx0) == <<"p","a","p","e","r","_">> \o str_of_int(idx0)

paper_id_from_index(idx0) == <<"p","a","p","e","r","_">> \o str_of_int(idx0 + 1)

\* the sort key int(x.split("_")[1])
paper_sort_key(x) == int(str_split(x, "_")[2])

NumericLess(a, b) == paper_sort_key(a) < paper_sort_key(b)

\* sorted(S) under a strict total order Less: the n-th item has n-1 items below it
SortedBy(S, Less(_, _)) ==
    List([n \in 1..Cardinality(S) |->
              CHOOSE x \in S : Cardinality({y \in S : Less(y, x)}) = n - 1])

\* sorted(set(v)) with no key: the str ordering
sorted_unique_lexical(v) == SortedBy(Range(v), StrLess)

\* sorted(set(v), key=lambda x: int(x.split("_")[1]))
sorted_unique(v) == SortedBy(Range(v), NumericLess)

\* d[k].append(v) for every k of keys, d a defaultdict(list)
AppendAll(d, keys, v) ==
    [k \in (DOMAIN d) \cup keys |->
        IF k \in keys
        THEN (IF k \in DOMAIN d THEN Append(d[k], v) ELSE <<v>>)
        ELSE d[k]]

EmptyDict == <<>>

(***************************************************************************)
(* The table and row access                                                *)
(***************************************************************************)
COL_Y == 24
COL_Z == 25
COL_AA == 26
COL_AB == 27
COL_AC == 28
COL_AD == 29
COL_AG == 32

METHODS == <<"prioritization", "selection">>

\* row.iloc[col] raises IndexError unless col < ncols
Readable(col) == col < ncols

MakeRow(y, z, aa, ab, ac, ad, ag) ==
    (COL_Y :> y) @@ (COL_Z :> z) @@ (COL_AA :> aa) @@ (COL_AB :> ab) @@
    (COL_AC :> ac) @@ (COL_AD :> ad) @@ (COL_AG :> ag)

\* the paper type compared without regard to case
is_ps_any_case(row) == Lower(Strip(Str(row[COL_Y]))) = <<"p","s">>

\* `str(y).strip() != "PS"` is false
is_ps(row) == Strip(Str(row[COL_Y])) = <<"P","S">>

\* z_str = "" if is_empty(z) else str(z).lower()
z_str(row) == IF is_empty(row[COL_Z]) THEN <<>> ELSE Lower(Str(row[COL_Z]))

NoReport ==
    /\ table = <<>>
    /\ ncols = 0
    /\ i = 0
    /\ filtered = <<>>
    /\ pair_map = EmptyDict
    /\ obj_map = EmptyDict
    /\ metric_to_papers = EmptyDict
    /\ tax_metric_to_papers = EmptyDict
    /\ per_method = EmptyDict
    /\ out = <<>>
    /\ out_lines = <<>>
    /\ bib_file = None

(***************************************************************************)
(* taxonomy_algo_query_prioritization.py                                   *)
(***************************************************************************)
\* the row passes filter_ps_prioritization
passes_filter(row) ==
    /\ Readable(COL_Y) /\ Readable(COL_Z)
    /\ is_ps(row)
    /\ Contains(<<"p","r","i","o","r","i","t","i","z","a","t","i","o","n">>, z_str(row))

\* one iteration of `for idx, row in df.iterrows()` in filter_ps_prioritization;
\* filtered keeps idx, the row being table[idx + 1]
TaxoFilterRow ==
    /\ prog = "taxonomy" /\ pc = "filter"
    /\ i < Len(table)
    /\ filtered' = IF passes_filter(table[i + 1]) THEN Append(filtered, i) ELSE filtered
    /\ i' = i + 1
    /\ UNCHANGED <<prog, pc, table, ncols, pair_map, obj_map, metric_to_papers,
                   tax_metric_to_papers, per_method, out, out_lines, bib_file,
                   pureVars>>

TaxoFilterReturn ==
    /\ prog = "taxonomy" /\ pc = "filter"
    /\ i = Len(table)
    /\ pc' = "build"
    /\ i' = 0
    /\ UNCHANGED <<prog, table, ncols, filtered, pair_map, obj_map, metric_to_papers,
                   tax_metric_to_papers, per_method, out, out_lines, bib_file,
                   pureVars>>

\* the keys of a row whose inner loop stops after its first algorithm
taxo_row_keys_first_algo(row) ==
    LET taxos == match_taxonomy_labels(row[COL_AA])
        algos == match_algorithm_labels(row[COL_AB])
        first == {a \in algos : \A b \in algos :
                     FirstIndexOf(ALGO_KEYS, a) <= FirstIndexOf(ALGO_KEYS, b)}
    IN  taxos \X first

\* the keys one row appends its paper id to
taxo_row_keys(row) ==
    LET taxos == match_taxonomy_labels(row[COL_AA])
        algos == match_algorithm_labels(row[COL_AB])
    IN  taxos \X algos

\* one iteration of `for idx, row in filtered_rows` in build_pairs
TaxoBuildRow ==
    /\ prog = "taxonomy" /\ pc = "build"
    /\ i < Len(filtered)
    /\ LET idx == filtered[i + 1]
           row == table[idx + 1]
           pid == paper_id_from_index(idx)
       IN  IF Readable(COL_AA) /\ Readable(COL_AB) /\ Readable(COL_AC)
           THEN /\ obj_map' = (pid :> parse_objectives(row[COL_AC])) @@ obj_map
                /\ pair_map' = AppendAll(pair_map, taxo_row_keys(row), pid)
           ELSE UNCHANGED <<pair_map, obj_map>>
    /\ i' = i + 1
    /\ UNCHANGED <<prog, pc, table, ncols, filtered, metric_to_papers,
                   tax_metric_to_papers, per_method, out, out_lines, bib_file,
                   pureVars>>

\* the end of build_pairs: "deduplicate and sort paper ids numerically"
TaxoFinalize ==
    /\ prog = "taxonomy" /\ pc = "build"
    /\ i = Len(filtered)
    /\ pair_map' = [k \in DOMAIN pair_map |-> sorted_unique(pair_map[k])]
    /\ pc' = "print"
    /\ UNCHANGED <<prog, table, ncols, i, filtered, obj_map, metric_to_papers,
                   tax_metric_to_papers, per_method, out, out_lines, bib_file,
                   pureVars>>

\* position of label in order (0-based), 10**6 when it is not there
order_index(order, label) ==
    IF label \in Range(order) THEN FirstIndexOf(order, label) - 1 ELSE 1000000

\* pairs compared by taxonomy, then by ALGO_KEYS position of the algorithm
PairLessAlgoOrder(x, y) ==
    \/ StrLess(Chars[x[1]], Chars[y[1]])
    \/ /\ x[1] = y[1]
       /\ \/ order_index(ALGO_KEYS, x[2]) < order_index(ALGO_KEYS, y[2])
          \/ /\ order_index(ALGO_KEYS, x[2]) = order_index(ALGO_KEYS, y[2])
             /\ StrLess(Chars[x[2]], Chars[y[2]])

\* (x[0], x[1]) < (y[0], y[1]) on pairs of labels
PairLessAlphabetical(x, y) ==
    \/ StrLess(Chars[x[1]], Chars[y[1]])
    \/ x[1] = y[1] /\ StrLess(Chars[x[2]], Chars[y[2]])

\* pairs.sort(key=lambda x: (x[0], x[1]))
taxo_sorted_pairs(pairs) == SortedBy(pairs, PairLessAlphabetical)

MULTI_TAG == <<" ","[","m","u","l","t","i","-","o","b","j","]">>

\* the decorated list of main()
decorate(papers) ==
    List([n \in 1..Len(papers) |->
              IF papers[n] \in DOMAIN obj_map /\ obj_map[papers[n]] = "multi"
              THEN papers[n] \o MULTI_TAG
              ELSE papers[n]])

\* the printing loop of main(): one line per pair with a non-empty list
TaxoPrint ==
    /\ prog = "taxonomy" /\ pc = "print"
    /\ LET pairs == taxo_sorted_pairs({k \in DOMAIN pair_map : pair_map[k] # <<>>})
       IN  out' = List([n \in 1..Len(pairs) |->
                            [section |-> "TAXONOMY x ALGORITHM",
                             method |-> "prioritization",
                             key |-> pairs[n],
                             count |-> Len(pair_map[pairs[n]]),
                             items |-> decorate(pair_map[pairs[n]])]])
    /\ pc' = "done"
    /\ UNCHANGED <<prog, table, ncols, i, filtered, pair_map, obj_map, metric_to_papers,
                   tax_metric_to_papers, per_method, out_lines, bib_file,
                   pureVars>>

(***************************************************************************)
(* metrics_report.py                                                       *)
(***************************************************************************)
\* cfg["tax_keys"], cfg["metric_order"], cfg["norm_metrics_fn"](ag)
tax_keys_of(method) == IF method = "prioritization" THEN PRIO_TAX_KEYS ELSE SEL_TAX_KEYS
metric_order_of(method) ==
    IF method = "prioritization" THEN PRIO_METRIC_CANON ELSE SEL_METRIC_CANON
norm_metrics(method, ag) ==
    IF method = "prioritization"
    THEN normalize_metrics_for_prioritization(ag)
    ELSE normalize_metrics_for_selection(ag)

\* the row taken as read whatever the width of the table
metrics_row_read_unguarded(row) == is_ps(row)

\* the row is read and is a PS row
metrics_row_read(row) ==
    /\ Readable(COL_Y) /\ Readable(COL_Z) /\ Readable(COL_AA) /\ Readable(COL_AG)
    /\ is_ps(row)

\* the body of `for method_name, cfg in methods.items()` is entered
method_in_row(method, row) ==
    /\ metrics_row_read(row)
    /\ Contains(Chars[method], z_str(row))

\* the metrics the row counts under method: none when the body is left early
row_metrics(method, row) ==
    IF method_in_row(method, row) THEN norm_metrics(method, row[COL_AG]) ELSE {}

row_taxos(method, row) ==
    IF row_metrics(method, row) = {} THEN {}
    ELSE metrics_match_taxonomy_labels(row[COL_AA], tax_keys_of(method))

\* the pairs built from the metrics either normalizer finds in the row
row_tax_metric_keys_any_method(method, row) ==
    row_taxos(method, row) \X
        (normalize_metrics_for_prioritization(row[COL_AG]) \cup
         normalize_metrics_for_selection(row[COL_AG]))

\* "(2) taxonomy x metric listing": the keys the row is appended to
row_tax_metric_keys(method, row) == row_taxos(method, row) \X row_metrics(method, row)

\* one iteration of `for idx, row in df.iterrows()` of main()
MetricsRow ==
    /\ prog = "metrics" /\ pc = "rows"
    /\ i < Len(table)
    /\ LET row == table[i + 1]
           pid == paper_id_from_index(i)
       IN  /\ metric_to_papers' =
                  [m \in Range(METHODS) |->
                      AppendAll(metric_to_papers[m], row_metrics(m, row), pid)]
           /\ tax_metric_to_papers' =
                  [m \in Range(METHODS) |->
                      AppendAll(tax_metric_to_papers[m], row_tax_metric_keys(m, row), pid)]
    /\ i' = i + 1
    /\ UNCHANGED <<prog, pc, table, ncols, filtered, pair_map, obj_map, per_method, out,
                   out_lines, bib_file,
                   pureVars>>

\* "Deduplicate and sort paper lists"
MetricsFinalize ==
    /\ prog = "metrics" /\ pc = "rows"
    /\ i = Len(table)
    /\ metric_to_papers' =
           [m \in Range(METHODS) |->
               [k \in DOMAIN metric_to_papers[m] |-> sorted_unique(metric_to_papers[m][k])]]
    /\ tax_metric_to_papers' =
           [m \in Range(METHODS) |->
               [k \in DOMAIN tax_metric_to_papers[m] |->
                   sorted_unique(tax_metric_to_papers[m][k])]]
    /\ pc' = "print"
    /\ UNCHANGED <<prog, table, ncols, i, filtered, pair_map, obj_map, per_method, out,
                   out_lines, bib_file,
                   pureVars>>

LabelLess(a, b) == StrLess(Chars[a], Chars[b])

\* the key (x[0], order_index.get(x[1], 10**6), x[1])
metric_pair_less(method, x, y) ==
    \/ StrLess(Chars[x[1]], Chars[y[1]])
    \/ /\ x[1] = y[1]
       /\ \/ order_index(metric_order_of(method), x[2]) < order_index(metric_order_of(method), y[2])
          \/ /\ order_index(metric_order_of(method), x[2]) = order_index(metric_order_of(method), y[2])
             /\ StrLess(Chars[x[2]], Chars[y[2]])

\* the per-metric lines of one method: metric_order first, then any others
metric_lines(method) ==
    LET m2p == metric_to_papers[method]
        order == metric_order_of(method)
        listed == SelectSeq(order, LAMBDA c : c \in DOMAIN m2p /\ m2p[c] # <<>>)
        extra == SortedBy({c \in DOMAIN m2p : c \notin Range(listed) /\ m2p[c] # <<>>},
                          LabelLess)
        keys == listed \o extra
    IN  List([n \in 1..Len(keys) |->
                  [section |-> "METRICS", method |-> method, key |-> keys[n],
                   count |-> Len(m2p[keys[n]]), items |-> m2p[keys[n]]]])

\* the taxonomy x metric lines of one method
tax_metric_lines(method) ==
    LET tm2p == tax_metric_to_papers[method]
        Less(x, y) == metric_pair_less(method, x, y)
        pairs == SelectSeq(SortedBy(DOMAIN tm2p, Less), LAMBDA k : tm2p[k] # <<>>)
    IN  List([n \in 1..Len(pairs) |->
                  [section |-> "TAXONOMY x METRIC", method |-> method, key |-> pairs[n],
                   count |-> Len(tm2p[pairs[n]]), items |-> tm2p[pairs[n]]]])

\* "Print reports"
MetricsPrint ==
    /\ prog = "metrics" /\ pc = "print"
    /\ out' = metric_lines("prioritization") \o tax_metric_lines("prioritization") \o
              metric_lines("selection") \o tax_metric_lines("selection")
    /\ pc' = "done"
    /\ UNCHANGED <<prog, table, ncols, i, filtered, pair_map, obj_map, metric_to_papers,
                   tax_metric_to_papers, per_method, out_lines, bib_file,
                   pureVars>>

(***************************************************************************)
(* sut_report.py                                                           *)
(***************************************************************************)
\* the categories the row is added under, for every method it names
sut_row_cats(row) ==
    IF /\ Readable(COL_Y) /\ Readable(COL_Z) /\ Readable(COL_AD)
       /\ is_ps(row)
       /\ ~is_empty(row[COL_AD])
    THEN categorize_sut_tokens(sut_split_multi(row[COL_AD]))
    ELSE {}

\* one iteration of `for idx, row in df.iterrows()` of main()
SutRow ==
    /\ prog = "sut" /\ pc = "rows"
    /\ i < Len(table)
    /\ LET row == table[i + 1]
           cats == sut_row_cats(row)
           pid == paper_id_from_index(i)
       IN  per_method' =
               [m \in Range(METHODS) |->
                   [c \in Range(CATEGORY_ORDER) |->
                       IF c \in cats /\ Contains(Chars[m], z_str(row))
                       THEN per_method[m][c] \cup {pid}
                       ELSE per_method[m][c]]]
    /\ i' = i + 1
    /\ UNCHANGED <<prog, pc, table, ncols, filtered, pair_map, obj_map, metric_to_papers,
                   tax_metric_to_papers, out, out_lines, bib_file,
                   pureVars>>

\* sorted(cat_map[cat], key=lambda s: int(s.split("_")[1]))
sut_sorted(papers) == SortedBy(papers, NumericLess)

\* print_block(method_name)
print_block(method) ==
    LET cats == SelectSeq(CATEGORY_ORDER, LAMBDA c : per_method[method][c] # {})
    IN  List([n \in 1..Len(cats) |->
                  [section |-> "SUT", method |-> method, key |-> cats[n],
                   count |-> Cardinality(per_method[method][cats[n]]),
                   items |-> sut_sorted(per_method[method][cats[n]])]])

SutPrint ==
    /\ prog = "sut" /\ pc = "rows"
    /\ i = Len(table)
    /\ out' = print_block("prioritization") \o print_block("selection")
    /\ pc' = "done"
    /\ UNCHANGED <<prog, table, ncols, i, filtered, pair_map, obj_map, metric_to_papers,
                   tax_metric_to_papers, per_method, out_lines, bib_file,
                   pureVars>>

(***************************************************************************)
(* excel_to_bib.py                                                         *)
(***************************************************************************)
COL_C == 2
COL_D == 3
COL_E == 4
COL_F == 5
COL_O == 14

MakeBibRow(authors, booktitle, title, year, journal) ==
    (COL_C :> authors) @@ (COL_D :> booktitle) @@ (COL_E :> title) @@
    (COL_F :> year) @@ (COL_O :> journal)

\* the try block of main() reads all five cells without an IndexError
bib_row_read ==
    /\ Readable(COL_C) /\ Readable(COL_D) /\ Readable(COL_E)
    /\ Readable(COL_F) /\ Readable(COL_O)

\* bib_key = f"paper_{idx + 1}"
bib_key(idx) == <<"p","a","p","e","r","_">> \o str_of_int(idx + 1)

\* the entry kind decided by the journal cell instead of the booktitle cell
bib_is_conf_by_journal(row) == is_empty(row[COL_O])

\* is_conf = not is_empty(booktitle_val)
bib_is_conf(row) == ~is_empty(row[COL_D])

\* entry_type = "inproceedings" if is_conf else "article"
bib_entry_type(row) == IF bib_is_conf(row) THEN <<"i","n","p","r","o","c","e","e","d","i","n","g","s">> ELSE <<"a","r","t","i","c","l","e">>

\* clean(s)
clean(x) == IF is_empty(x) THEN <<>> ELSE Strip(Str(x))

\* float(s) succeeds; the cells of the tables hold no sign, exponent,
\* underscore, 'inf' or 'nan', so the literal is digits with at most one '.'
float_ok(s) ==
    LET t == Strip(s)
    IN  /\ \E k \in 1..Len(t) : IsDigit(t[k])
        /\ \A k \in 1..Len(t) : IsDigit(t[k]) \/ t[k] = "."
        /\ Count(t, ".") <= 1

\* str(int(float(s))) for such a literal: the integer part, in decimal
str_int_float(s) ==
    LET t == Strip(s)
        whole == IF Count(t, ".") = 0 THEN t ELSE SubSeq(t, 1, FirstIndexOf(t, ".") - 1)
    IN  str_of_int(int(whole))

\* year_str of main()
bib_year_str(year_val) ==
    IF is_empty(year_val) THEN <<>>
    ELSE IF float_ok(Str(year_val)) THEN str_int_float(Str(year_val))
    ELSE Strip(Str(year_val))

\* the text of one field line
bib_field_line(name, value) ==
    (CASE name = "author" -> <<" "," ","a","u","t","h","o","r"," ","="," ","{">>
       [] name = "title" -> <<" "," ","t","i","t","l","e"," "," ","="," ","{">>
       [] name = "year" -> <<" "," ","y","e","a","r"," "," "," ","="," ","{">>
       [] name = "booktitle" -> <<" "," ","b","o","o","k","t","i","t","l","e"," ","="," ","{">>
       [] name = "journal" -> <<" "," ","j","o","u","r","n","a","l"," "," "," ","="," ","{">>) \o value \o <<"}">>

\* the list `fields` of main(), as (name, value) pairs in the order appended
bib_fields(row) ==
    LET author_field == normalize_author_list(row[COL_C])
        title == clean(row[COL_E])
        booktitle == clean(row[COL_D])
        journal == clean(row[COL_O])
        year_str == bib_year_str(row[COL_F])
        is_conf == bib_is_conf(row)
    IN  (IF author_field # <<>> THEN << <<"author", author_field>> >> ELSE <<>>) \o
        (IF title # <<>> THEN << <<"title", title>> >> ELSE <<>>) \o
        (IF year_str # <<>> THEN << <<"year", year_str>> >> ELSE <<>>) \o
        (IF is_conf /\ booktitle # <<>> THEN << <<"booktitle", booktitle>> >> ELSE <<>>) \o
        (IF ~is_conf /\ journal # <<>> THEN << <<"journal", journal>> >> ELSE <<>>)

\* entry = f"@{entry_type}{{{bib_key},\n" + ",\n".join(fields) + "\n}\n"
bib_entry_text(entry_type, key, fields) ==
    <<"@">> \o entry_type \o <<"{">> \o key \o <<",", "\n">> \o
    Join(<<",", "\n">>,
         List([k \in 1..Len(fields) |-> bib_field_line(fields[k][1], fields[k][2])])) \o
    <<"\n", "}", "\n">>

\* the entry one readable row appends to out_lines
bib_entry(idx, row) ==
    [entry_type |-> bib_entry_type(row),
     bib_key |-> bib_key(idx),
     fields |-> bib_fields(row),
     text |-> bib_entry_text(bib_entry_type(row), bib_key(idx), bib_fields(row))]

\* one iteration of `for idx, row in df.iterrows()` of main()
BibRow ==
    /\ prog = "bib" /\ pc = "rows"
    /\ i < Len(table)
    /\ out_lines' = IF bib_row_read THEN Append(out_lines, bib_entry(i, table[i + 1]))
                    ELSE out_lines
    /\ i' = i + 1
    /\ UNCHANGED <<prog, pc, table, ncols, filtered, pair_map, obj_map, metric_to_papers,
                   tax_metric_to_papers, per_method, out, bib_file, pureVars>>

\* f.write("\n".join(out_lines))
BibWrite ==
    /\ prog = "bib" /\ pc = "rows"
    /\ i = Len(table)
    /\ bib_file' = Join(<<"\n">>, List([k \in 1..Len(out_lines) |-> out_lines[k].text]))
    /\ pc' = "done"
    /\ UNCHANGED <<prog, table, ncols, i, filtered, pair_map, obj_map, metric_to_papers,
                   tax_metric_to_papers, per_method, out, out_lines, pureVars>>

(***************************************************************************)
(* The tables the scripts are run on: MaxRows rows, all but at most        *)
(* MaxClassified of them blank, and a width each script reads differently. *)
(***************************************************************************)
MaxRows == 10
MaxClassified == MaxRows \div 5

BlankRow == MakeRow(NaN, NaN, NaN, NaN, NaN, NaN, NaN)

ClassifiedRows == {
    MakeRow(<<"P","S">>, <<"p","r","i","o","r","i","t","i","z","a","t","i","o","n">>, <<"c","o","v","e","r","a","g","e">>, <<"g","r","e","e","d","y",","," ","h","e","u","r","i","s","t","i","c">>, <<"2">>,
            <<"S","I","R",":"," ","g","r","e","p">>, <<"A","P","F","D",";"," ","e","x","e","c","u","t","i","o","n"," ","t","i","m","e">>),
    MakeRow(<<" ","P","S"," ">>, <<"P","r","i","o","r","i","t","i","z","a","t","i","o","n"," ","a","n","d"," ","S","e","l","e","c","t","i","o","n">>, <<"c","o","s","t",","," ","g","r","a","p","h">>, <<"m","e","t","a","h","e","u","r","i","s","t","i","c">>,
            <<"s","i","n","g","l","e">>, <<"a","n","t">>, <<"r","e","c","a","l","l",";"," ","e","x","e","c","u","t","i","o","n"," ","t","i","m","e">>),
    MakeRow(<<"P","S">>, <<"s","e","l","e","c","t","i","o","n">>, NaN, <<"g","r","e","e","d","y">>, NaN, <<";">>, <<"s","a","f","e","t","y">>),
    MakeRow(<<"p","s">>, <<"p","r","i","o","r","i","t","i","z","a","t","i","o","n">>, <<"c","o","v","e","r","a","g","e">>, <<"g","r","e","e","d","y",","," ","h","e","u","r","i","s","t","i","c">>, <<"2">>,
            <<"S","I","R",":"," ","g","r","e","p">>, <<"A","P","F","D",";"," ","e","x","e","c","u","t","i","o","n"," ","t","i","m","e">>),
    MakeRow(<<"P","S">>, <<"m","i","n","i","m","i","z","a","t","i","o","n">>, <<"c","o","v","e","r","a","g","e">>, <<"g","r","e","e","d","y">>, <<"1">>, <<"a","n","t">>, <<"r","e","c","a","l","l">>),
    MakeRow(<<"P","S">>, <<"p","r","i","o","r","i","t","i","z","a","t","i","o","n">>, <<"c","o","v","e","r","a","g","e">>, <<"e","x","a","c","t">>, <<"3"," ","o","b","j","e","c","t","i","v","e","s">>, <<"f","o","o">>,
            <<"f","o","o">>),
    MakeRow(<<"P","S">>, <<"p","r","i","o","r","i","t","i","z","a","t","i","o","n">>, <<"c","o","v","e","r","a","g","e">>, <<"g","r","e","e","d","y",","," ","m","e","t","a">>, NaN, NaN, NaN)
}

\* enough columns for: the filter only; the taxonomy and SUT scripts; all
TableWidths == {COL_Z + 1, COL_AD + 1, COL_AG + 1}

BlankBibRow == MakeBibRow(NaN, NaN, NaN, NaN, NaN)

BibRows == {
    MakeBibRow(<<"S","m","i","t","h",","," ","J","o","h","n",";"," ","D","o","e",","," ","A">>, <<"I","C","S","E">>, <<"T">>, <<"2","0","2","0",".","0">>, NaN),
    MakeBibRow(<<"D","o","e",","," ","A">>, NaN, <<" ","T"," ">>, <<"n",".","d",".">>, <<"T","S","E">>),
    MakeBibRow(NaN, <<"I","C","S","E"," ">>, NaN, <<"2","0","2","0">>, <<"T","S","E">>),
    MakeBibRow(<<"x">>, <<" ">>, NaN, NaN, <<" ">>)
}

\* too few columns for the journal cell; enough for every cell
BibWidths == {COL_F + 1, COL_O + 1}

Tables ==
    {[n \in 1..MaxRows |-> IF n \in DOMAIN f THEN f[n] ELSE BlankRow] :
        f \in UNION {[P -> ClassifiedRows] :
                        P \in {Q \in SUBSET (1..MaxRows) : Cardinality(Q) <= MaxClassified}}}

BibTables ==
    {[n \in 1..MaxRows |-> IF n \in DOMAIN f THEN f[n] ELSE BlankBibRow] :
        f \in UNION {[P -> BibRows] :
                        P \in {Q \in SUBSET (1..MaxRows) : Cardinality(Q) <= MaxClassified}}}

Init ==
    /\ prog \in {"taxonomy", "metrics", "sut", "bib"}
    /\ pc = IF prog = "taxonomy" THEN "filter" ELSE "rows"
    /\ table \in (IF prog = "bib" THEN BibTables ELSE Tables)
    /\ ncols \in (IF prog = "bib" THEN BibWidths ELSE TableWidths)
    /\ i = 0
    /\ filtered = <<>>
    /\ pair_map = EmptyDict
    /\ obj_map = EmptyDict
    /\ metric_to_papers = [m \in Range(METHODS) |-> EmptyDict]
    /\ tax_metric_to_papers = [m \in Range(METHODS) |-> EmptyDict]
    /\ per_method = [m \in Range(METHODS) |-> [c \in Range(CATEGORY_ORDER) |-> {}]]
    /\ out = <<>>
    /\ out_lines = <<>>
    /\ bib_file = None
    /\ cell = <<>>
    /\ result = None
    /\ result2 = None

Next ==
    \/ TaxoFilterRow
    \/ TaxoFilterReturn
    \/ TaxoBuildRow
    \/ TaxoFinalize
    \/ TaxoPrint
    \/ MetricsRow
    \/ MetricsFinalize
    \/ MetricsPrint
    \/ SutRow
    \/ SutPrint
    \/ BibRow
    \/ BibWrite

Spec == Init /\ [][Next]_vars

(***************************************************************************)
(* Inputs of the functions under test: a cell is the concatenation of at   *)
(* most MaxAtoms pieces of text.                                           *)
(***************************************************************************)
MaxAtoms == 3

SeqsUpTo(S, n) == UNION {[1..m -> S] : m \in 0..n}
CellsOver(atoms) == {Flatten(a) : a \in SeqsUpTo(atoms, MaxAtoms)} \cup {NaN}

AlgoAtoms == {<<"m","e","t","a">>, <<"h","e","u","r","i","s","t","i","c">>, <<"H","e","u","r","i","s","t","i","c">>, <<"g","r","e","e","d","y">>, <<"M","L">>, <<","," ">>, <<";">>, <<" ">>, <<"x">>}
AlgoCells == CellsOver(AlgoAtoms)

(***************************************************************************)
(* match_algorithm_labels under test                                       *)
(***************************************************************************)
InitAlgo ==
    /\ prog = "match_algorithm_labels"
    /\ pc = "call"
    /\ cell \in AlgoCells
    /\ result = None
    /\ result2 = None
    /\ NoReport

CallAlgo ==
    /\ prog = "match_algorithm_labels"
    /\ pc = "call"
    /\ result' = match_algorithm_labels(cell)
    /\ pc' = "return"
    /\ UNCHANGED <<prog, cell, result2, reportVars>>

NextAlgo == CallAlgo

SpecAlgo == InitAlgo /\ [][NextAlgo]_vars

\* the tokens the matcher scans, lower-cased
AlgoTokens(c) ==
    LET s == IF is_empty(c) THEN <<>> ELSE Lower(Str(c))
    IN  Range(tokens_or_whole(s))

\* C3: 'heuristic' is in the result iff some token of the cell contains
\* 'heuristic' and does not contain 'meta'; 'meta' is in the result iff some
\* token contains 'meta'; the cell 'metaheuristic' yields exactly {meta} and
\* 'heuristic, greedy' yields exactly {heuristic, greedy}.
C3_HeuristicSuppressedPerToken ==
    (prog = "match_algorithm_labels" /\ pc = "return") =>
        /\ ("heuristic" \in result) <=>
              (\E t \in AlgoTokens(cell) :
                   Contains(<<"h","e","u","r","i","s","t","i","c">>, t) /\ ~Contains(<<"m","e","t","a">>, t))
        /\ ("meta" \in result) <=> (\E t \in AlgoTokens(cell) : Contains(<<"m","e","t","a">>, t))
        /\ (cell = <<"m","e","t","a","h","e","u","r","i","s","t","i","c">>) => (result = {"meta"})
        /\ (cell = <<"h","e","u","r","i","s","t","i","c",","," ","g","r","e","e","d","y">>) => (result = {"heuristic", "greedy"})

\* the single token 'metaheuristic': 'heuristic' is suppressed
C3_Witness ==
    /\ prog = "match_algorithm_labels" /\ pc = "return"
    /\ cell = <<"m","e","t","a","h","e","u","r","i","s","t","i","c">>
    /\ result = {"meta"}

\* 'meta' in one token does not suppress 'heuristic' in another
C3_WitnessPerToken ==
    /\ prog = "match_algorithm_labels" /\ pc = "return"
    /\ cell = <<"m","e","t","a",";","h","e","u","r","i","s","t","i","c">>
    /\ result = {"meta", "heuristic"}

(***************************************************************************)
(* The metric normalizers under test                                       *)
(***************************************************************************)
MetricAtoms == {<<"A","P","F","D">>, <<"c","o","d","e"," ","c","o","v","e","r","a","g","e">>, <<"a","v","e","r","a","g","e"," ","p","e","r","c","e","n","t","a","g","e"," ","o","f"," ">>, <<"f","a","u","l","t","s"," ","d","e","t","e","c","t","e","d">>,
                <<"e","x","e","c","u","t","i","o","n"," ","t","i","m","e">>, <<"h","y","p","e","r","v","o","l","u","m","e">>, <<"r","e","c","a","l","l">>, <<"s","a","f","e","t","y">>, <<";"," ">>, <<" ">>,
                <<"x">>}
MetricCells == CellsOver(MetricAtoms)

InitMetric ==
    /\ prog \in {"normalize_metrics_for_prioritization", "normalize_metrics_for_selection"}
    /\ pc = "call"
    /\ cell \in MetricCells
    /\ result = None
    /\ result2 = None
    /\ NoReport

CallPrioMetric ==
    /\ prog = "normalize_metrics_for_prioritization"
    /\ pc = "call"
    /\ result' = normalize_metrics_for_prioritization(cell)
    /\ pc' = "return"
    /\ UNCHANGED <<prog, cell, result2, reportVars>>

CallSelMetric ==
    /\ prog = "normalize_metrics_for_selection"
    /\ pc = "call"
    /\ result' = normalize_metrics_for_selection(cell)
    /\ pc' = "return"
    /\ UNCHANGED <<prog, cell, result2, reportVars>>

NextMetric == CallPrioMetric \/ CallSelMetric

SpecMetric == InitMetric /\ [][NextMetric]_vars

\* the lower-cased tokens of a metric cell
MetricTokens(c) ==
    IF is_empty(c) THEN {} ELSE {Lower(t) : t \in Range(metric_tokens(Str(c)))}

\* the canonical labels whose pattern list has a pattern matching the token
CanonMatched(compiled, lt) ==
    {c \in DOMAIN compiled : \E k \in 1..Len(compiled[c]) : rgx_search(compiled[c][k], lt)}

HintMatched(other, lt) == \E k \in 1..Len(other) : rgx_search(other[k], lt)

\* what one token contributes, as the claim states it
TokenContribution(compiled, other, lt) ==
    CanonMatched(compiled, lt) \cup
    (IF CanonMatched(compiled, lt) = {} /\ HintMatched(other, lt) THEN {"Other"} ELSE {})

MetricResultIsUnion(compiled, other) ==
    /\ result = UNION {TokenContribution(compiled, other, lt) : lt \in MetricTokens(cell)}
    /\ ("Other" \in result) <=>
           (\E lt \in MetricTokens(cell) :
                CanonMatched(compiled, lt) = {} /\ HintMatched(other, lt))

ObjAtoms == {<<"1">>, <<"0">>, <<"2">>, <<"s","i","n","g","l","e">>, <<"m","u","l","t","i">>, <<"t","w","o">>, <<"o","b","j","e","c","t","i","v","e","s">>, <<">">>,
             <<" ">>, <<"x">>, <<"O","n","e">>}
ObjCells == CellsOver(ObjAtoms)

InitObj ==
    /\ prog = "parse_objectives"
    /\ pc = "call"
    /\ cell \in ObjCells
    /\ result = None
    /\ result2 = None
    /\ NoReport

CallObj ==
    /\ prog = "parse_objectives"
    /\ pc = "call"
    /\ result' = parse_objectives(cell)
    /\ pc' = "return"
    /\ UNCHANGED <<prog, cell, result2, reportVars>>

NextObj == CallObj

SpecObj == InitObj /\ [][NextObj]_vars

\* the digit runs of s as (first, last) index pairs
DigitRuns(s) ==
    {r \in (1..Len(s)) \X (1..Len(s)) :
        /\ r[1] <= r[2]
        /\ \A k \in r[1]..r[2] : IsDigit(s[k])
        /\ (r[1] = 1 \/ ~IsDigit(s[r[1] - 1]))
        /\ (r[2] = Len(s) \/ ~IsDigit(s[r[2] + 1]))}

\* the leftmost digit run whose value is not 0, as a set of at most one run
FirstNonZeroRun(s) ==
    LET nz == {r \in DigitRuns(s) : \E k \in r[1]..r[2] : s[k] # "0"}
    IN  {r \in nz : \A q \in nz : r[1] <= q[1]}

ObjText(c) == Lower(Strip(Str(c)))
ObjRule1(s) == Contains(<<"o","n","e">>, s) \/ Contains(<<"s","i","n","g","l","e">>, s) \/ s = <<"1">>
ObjRule2(s) == Contains(<<"m","u","l","t","u">>, s) \/ Contains(<<"m","u","l","t","i">>, s)
ObjRule3(s) == Contains(<<"t","w","o">>, s) \/ Contains(<<"t","h","r","e","e">>, s)
ObjRule4(s) == FirstNonZeroRun(s) # {}
ObjRule5(s) == Contains(<<"o","b","j","e","c","t","i","v","e","s">>, s) \/ Contains(<<">">>, s)

\* C5: parse_objectives applies its rules in strict priority order: empty ->
\* None; 'one'/'single'/equals '1' -> one; 'multu'/'multi' -> multi;
\* 'two'/'three' -> multi; the first digit run of value >= 2 -> multi or of
\* value 1 -> one (runs of value 0 passed over); 'objectives' or '>' ->
\* multi; otherwise one.  A non-empty cell yields one of 'one' / 'multi'.
C5_ObjectivePriority ==
    (prog = "parse_objectives" /\ pc = "return") =>
        LET s == ObjText(cell) IN
        /\ is_empty(cell) <=> (result = None)
        /\ ~is_empty(cell) => result \in {"one", "multi"}
        /\ (~is_empty(cell) /\ ObjRule1(s)) => result = "one"
        /\ (~is_empty(cell) /\ ~ObjRule1(s) /\ (ObjRule2(s) \/ ObjRule3(s))) =>
               result = "multi"
        /\ (~is_empty(cell) /\ ~ObjRule1(s) /\ ~ObjRule2(s) /\ ~ObjRule3(s)) =>
               /\ \A r \in FirstNonZeroRun(s) :
                      result = (IF int(SubSeq(s, r[1], r[2])) >= 2 THEN "multi" ELSE "one")
               /\ (~ObjRule4(s) /\ ObjRule5(s)) => result = "multi"
               /\ (~ObjRule4(s) /\ ~ObjRule5(s)) => result = "one"

\* a zero run passed over, the next run deciding before the '>' hint
C5_Witness ==
    /\ prog = "parse_objectives" /\ pc = "return"
    /\ cell = <<"0"," ","2">>
    /\ result = "multi"

(***************************************************************************)
(* normalize_author_list under test: applied once, then to its own result  *)
(***************************************************************************)
AuthorAtoms == {<<"S","m","i","t","h",","," ","J","o","h","n">>, <<"D","o","e",","," ","A">>, <<"A",",","B",",","C">>, <<",">>, <<","," ">>, <<";">>, <<" ","a","n","d"," ">>,
                <<" "," ">>, <<"x">>}
AuthorCells == CellsOver(AuthorAtoms)

InitAuthors ==
    /\ prog = "normalize_author_list"
    /\ pc = "call"
    /\ cell \in AuthorCells
    /\ result = None
    /\ result2 = None
    /\ NoReport

CallAuthors ==
    /\ prog = "normalize_author_list"
    /\ pc = "call"
    /\ result' = normalize_author_list(cell)
    /\ pc' = "again"
    /\ UNCHANGED <<prog, cell, result2, reportVars>>

CallAuthorsAgain ==
    /\ prog = "normalize_author_list"
    /\ pc = "again"
    /\ result2' = normalize_author_list(result)
    /\ pc' = "return"
    /\ UNCHANGED <<prog, cell, result, reportVars>>

NextAuthors == CallAuthors \/ CallAuthorsAgain

SpecAuthors == InitAuthors /\ [][NextAuthors]_vars

AuthorText(c) == Strip(Str(c))
AuthorCommaTokens(c) == StripEach(str_split(AuthorText(c), ","))
\* the 'Surname, Given' pairs with both halves non-empty
AuthorPairs(c) ==
    LET t == AuthorCommaTokens(c)
        idx == {k \in 1..(Len(t) \div 2) : t[2 * k - 1] # <<>> /\ t[2 * k] # <<>>}
        Nth(n) == CHOOSE k \in idx : Cardinality({m \in idx : m < k}) = n - 1
    IN  [n \in 1..Cardinality(idx) |-> t[2 * Nth(n) - 1] \o <<","," ">> \o t[2 * Nth(n)]]

\* the input reaches the pair branch: non-empty, no ' and ', no ';', and an
\* even number >= 4 of comma-split tokens
PairBranch(c) ==
    /\ ~is_empty(c)
    /\ ~Contains(AND_SEP, AuthorText(c))
    /\ ~Contains(<<";">>, AuthorText(c))
    /\ Len(AuthorCommaTokens(c)) >= 4
    /\ Len(AuthorCommaTokens(c)) % 2 = 0

\* the regex-split pieces of the comma-count branch
AuthorParts(c) ==
    SelectSeq(StripCommasEach(comma_split_from(AuthorText(c), 1, <<>>)), NonEmptyStr)

AuthorsReturned == prog = "normalize_author_list" /\ pc # "call"

\* C6 as claimed: on the pair branch the result is always the join of the
\* pairs, later branches never consulted
C6_Original_PairBranchNoFallthrough ==
    (AuthorsReturned /\ PairBranch(cell)) => result = Join(AND_SEP, AuthorPairs(cell))

\* C6 (amended): the branches are tried in the fixed order empty, ' and ',
\* ';', pairs, comma count, otherwise; the pair branch decides only when at
\* least one pair has both halves non-empty, and the comma-count branch only
\* when its split yields more than one piece; otherwise control falls
\* through to the next branch.
C6_BranchOrder ==
    AuthorsReturned =>
        LET s == AuthorText(cell) IN
        /\ is_empty(cell) => result = <<>>
        /\ (~is_empty(cell) /\ Contains(AND_SEP, s)) => result = collapse_ws(s)
        /\ (~is_empty(cell) /\ ~Contains(AND_SEP, s) /\ Contains(<<";">>, s)) =>
               result = Join(AND_SEP, SelectSeq(StripEach(str_split(s, ";")), NonEmptyStr))
        /\ (PairBranch(cell) /\ AuthorPairs(cell) # <<>>) =>
               result = Join(AND_SEP, AuthorPairs(cell))
        /\ (/\ ~is_empty(cell) /\ ~Contains(AND_SEP, s) /\ ~Contains(<<";">>, s)
            /\ ~(PairBranch(cell) /\ AuthorPairs(cell) # <<>>)) =>
               result = (IF Count(s, ",") >= 3 /\ Len(AuthorParts(cell)) > 1
                         THEN Join(AND_SEP, AuthorParts(cell))
                         ELSE s)

\* the pair branch taken with a skipped pair
C6_Witness ==
    /\ AuthorsReturned
    /\ cell = <<"A",",","B",",","C",","," ">>
    /\ result = <<"A",","," ","B">>

\* the pair branch entered with every pair skipped: control falls through
C6_WitnessFallthrough ==
    /\ AuthorsReturned
    /\ PairBranch(cell) /\ AuthorPairs(cell) = <<>>
    /\ result = AuthorText(cell)

\* a ';' input with exactly one non-empty piece
SingleSemicolonPiece(c) ==
    /\ ~is_empty(c)
    /\ ~Contains(AND_SEP, AuthorText(c))
    /\ Contains(<<";">>, AuthorText(c))
    /\ Len(SelectSeq(StripEach(str_split(AuthorText(c), ";")), NonEmptyStr)) = 1

\* C7 as claimed: normalize(normalize(x)) = normalize(x) modulo whitespace
\* collapsing, for every x
C7_Original_Idempotent ==
    (prog = "normalize_author_list" /\ pc = "return") =>
        collapse_ws(result2) = collapse_ws(result)

\* C7 (amended): normalize(normalize(x)) = normalize(x) once both are
\* trimmed and whitespace-collapsed, for every x that is not a ';' input
\* with exactly one non-empty piece; and a string whose trimmed form
\* contains ' and ' is returned trimmed and whitespace-collapsed.
C7_IdempotentExceptSinglePiece ==
    /\ (prog = "normalize_author_list" /\ pc = "return" /\ ~SingleSemicolonPiece(cell)) =>
           collapse_ws(Strip(result2)) = collapse_ws(Strip(result))
    /\ (AuthorsReturned /\ ~is_empty(cell) /\ Contains(AND_SEP, AuthorText(cell))) =>
           result = collapse_ws(AuthorText(cell))

\* a pair-branch result fed back: only whitespace handling applies
C7_Witness ==
    /\ prog = "normalize_author_list" /\ pc = "return"
    /\ cell = <<"S","m","i","t","h",","," ","J","o","h","n",","," ","D","o","e",","," ","A">>
    /\ result = <<"S","m","i","t","h",","," ","J","o","h","n"," ","a","n","d"," ","D","o","e",","," ","A">>
    /\ result2 = result

(***************************************************************************)
(* split_multi -> categorize_sut_tokens (sut_report.py) under test         *)
(***************************************************************************)
SutAtoms == {<<"S","I","R">>, <<"g","r","e","p">>, <<"a","n","t">>, <<"J","F","r","e","e","C","h","a","r","t">>, <<"i","n","d","u","s","t","r","i","a","l">>, <<"f","o","o">>, <<":"," ">>,
             <<","," ">>, <<";">>, <<" ">>}
SutCells == CellsOver(SutAtoms)

InitSut ==
    /\ prog = "categorize_sut_tokens"
    /\ pc = "call"
    /\ cell \in SutCells
    /\ result = None
    /\ result2 = None
    /\ NoReport

\* tokens = split_multi(ad); cats = categorize_sut_tokens(tokens)
CallSut ==
    /\ prog = "categorize_sut_tokens"
    /\ pc = "call"
    /\ result' = sut_split_multi(cell)
    /\ result2' = categorize_sut_tokens(sut_split_multi(cell))
    /\ pc' = "return"
    /\ UNCHANGED <<prog, cell, reportVars>>

NextSut == CallSut

SpecSut == InitSut /\ [][NextSut]_vars

SutReturned == prog = "categorize_sut_tokens" /\ pc = "return"

\* C8 as claimed: every cell that is not empty gets at least one category
C8_Original_NonEmptyCellClassified ==
    (SutReturned /\ ~is_empty(cell)) => result2 # {}

\* the categories whose own test fires on the tokens
SutFiring(tokens) ==
    {c \in Range(CATEGORY_ORDER) :
        sut_test(c, List([k \in 1..Len(tokens) |-> to_lc(tokens[k])]))}

Injections(n) == {f \in [1..n -> 1..n] : \A a, b \in 1..n : f[a] = f[b] => a = b}
TestOrders == {[k \in 1..Len(CATEGORY_ORDER) |-> CATEGORY_ORDER[f[k]]] :
                  f \in Injections(Len(CATEGORY_ORDER))}
Reorderings(tokens) == {[k \in 1..Len(tokens) |-> tokens[f[k]]] : f \in Injections(Len(tokens))}

C9_WitnessFallback ==
    /\ SutReturned
    /\ result = <<<<"f","o","o">>>>
    /\ result2 = {"Other Public Repositories"}

\* a cell with nothing in it: missing, or whitespace only
CellBlank(c) == c = NaN \/ \A k \in 1..Len(c) : c[k] \in WHITESPACE

\* the cell without its leading and trailing whitespace
CellTrimmed(c) ==
    LET ink == {k \in 1..Len(c) : c[k] \notin WHITESPACE}
    IN  SubSeq(c, CHOOSE a \in ink : \A b \in ink : a <= b,
                  CHOOSE a \in ink : \A b \in ink : a >= b)

(***************************************************************************)
(* split_multi under test: the taxonomy script's and the metrics script's  *)
(***************************************************************************)
SplitAtoms == {<<" ","a",";"," ","b">>, <<" ",",">>, <<"c"," ">>, <<AMP_FULLWIDTH>>, <<MIDDLE_DOT>>, <<"|">>, <<"/">>, <<"+">>,
               <<"&">>, <<" ">>, <<"x"," ","y">>}
SplitCells == CellsOver(SplitAtoms)

InitSplit ==
    /\ prog = "split_multi"
    /\ pc = "call"
    /\ cell \in SplitCells
    /\ result = None
    /\ result2 = None
    /\ NoReport

CallSplit ==
    /\ prog = "split_multi"
    /\ pc = "call"
    /\ result' = split_multi(cell)
    /\ result2' = metrics_split_multi(cell)
    /\ pc' = "return"
    /\ UNCHANGED <<prog, cell, reportVars>>

NextSplit == CallSplit

SpecSplit == InitSplit /\ [][NextSplit]_vars

SplitReturned == prog = "split_multi" /\ pc = "return"

\* the separators of the claim: ; , | / + middle dot &, and the full-width &
SeparatorChars == {";", ",", "|", "/", "+", "U+00B7", "&", "U+FF06"}

\* s without the characters of drop
Without(s, drop) == SelectSeq(s, LAMBDA c : c \notin drop)

\* the maximal separator-free stretches of s that hold a non-blank character,
\* as pairs of first and last index
Stretches(s) ==
    {ab \in (1..Len(s)) \X (1..Len(s)) :
        /\ ab[1] <= ab[2]
        /\ \A k \in ab[1]..ab[2] : s[k] \notin SeparatorChars
        /\ ab[1] = 1 \/ s[ab[1] - 1] \in SeparatorChars
        /\ ab[2] = Len(s) \/ s[ab[2] + 1] \in SeparatorChars
        /\ \E k \in ab[1]..ab[2] : s[k] \notin WHITESPACE}

\* the stretches trimmed, left to right
StretchTokens(s) ==
    LET st == Stretches(s)
        nth(n) == CHOOSE ab \in st : Cardinality({cd \in st : cd[1] < ab[1]}) = n - 1
    IN  [n \in 1..Cardinality(st) |-> CellTrimmed(SubSeq(s, nth(n)[1], nth(n)[2]))]

\* C12: split_multi of both scripts returns no token for an empty cell and
\* otherwise the maximal separator-free pieces of the cell, trimmed, the
\* blank ones dropped, left to right: every token is non-empty, trimmed and
\* free of separators, and the tokens joined hold every character of the
\* cell but separators and whitespace, in order.
C12_SplitMultiPieces ==
    SplitReturned =>
        /\ result2 = result
        /\ CellBlank(cell) => result = <<>>
        /\ ~CellBlank(cell) => result = StretchTokens(cell)
        /\ \A n \in 1..Len(result) :
               /\ result[n] # <<>>
               /\ result[n][1] \notin WHITESPACE
               /\ result[n][Len(result[n])] \notin WHITESPACE
               /\ \A k \in 1..Len(result[n]) : result[n][k] \notin SeparatorChars
        /\ ~CellBlank(cell) =>
               Without(Flatten(result), WHITESPACE) =
                   Without(cell, SeparatorChars \cup WHITESPACE)
        /\ cell = <<" ","a",";"," ","b"," ",",","c"," ">> => result = <<<<"a">>, <<"b">>, <<"c">>>>

\* the example of the claim
C12_Witness ==
    /\ SplitReturned
    /\ cell = <<" ","a",";"," ","b"," ",",","c"," ">>
    /\ result = <<<<"a">>, <<"b">>, <<"c">>>>

\* a full-width ampersand splits like '&'
C12_WitnessFullWidth ==
    /\ SplitReturned
    /\ cell = <<"x"," ","y">> \o <<AMP_FULLWIDTH>> \o <<"x"," ","y">>
    /\ result = <<<<"x"," ","y">>, <<"x"," ","y">>>>

(***************************************************************************)
(* Claims about the reports                                                *)
(***************************************************************************)
\* the integer after 'paper_' in a paper id, decorated or not
PaperNumber(x) ==
    LET stop == {k \in 7..Len(x) : ~IsDigit(x[k])}
        last == IF stop = {} THEN Len(x) ELSE (CHOOSE k \in stop : \A m \in stop : k <= m) - 1
    IN  int(SubSeq(x, 7, last))

\* strictly ascending by the integer after 'paper_': sorted, and no id twice
AscendingIds(list) ==
    \A a, b \in 1..Len(list) : a < b => PaperNumber(list[a]) < PaperNumber(list[b])

\* C1: once aggregation is finalized, every key's paper list, in every
\* report, holds each paper id at most once and is sorted ascending by the
\* integer after 'paper_'.
C1_ListsSortedNumericallyNoDuplicates ==
    /\ (prog = "taxonomy" /\ pc \in {"print", "done"}) =>
           \A k \in DOMAIN pair_map : AscendingIds(pair_map[k])
    /\ (prog = "metrics" /\ pc \in {"print", "done"}) =>
           \A m \in Range(METHODS) :
               /\ \A k \in DOMAIN metric_to_papers[m] : AscendingIds(metric_to_papers[m][k])
               /\ \A k \in DOMAIN tax_metric_to_papers[m] :
                      AscendingIds(tax_metric_to_papers[m][k])
    /\ pc = "done" => \A n \in 1..Len(out) : AscendingIds(out[n].items)

\* a printed list where paper_9 is followed by paper_10
C1_Witness ==
    /\ pc = "done"
    /\ \E n \in 1..Len(out) :
           \E a \in 1..(Len(out[n].items) - 1) :
               /\ PaperNumber(out[n].items[a]) = 9
               /\ PaperNumber(out[n].items[a + 1]) = 10

\* position of a label in a declared enumeration, past the end when absent
DeclaredPosition(enum, label) ==
    IF \E k \in 1..Len(enum) : enum[k] = label
    THEN CHOOSE k \in 1..Len(enum) : enum[k] = label
    ELSE Len(enum) + 1

\* key x is printed before key y under "first component alphabetical, then
\* the second's position in enum, then alphabetical"
BeforeByEnum(enum, x, y) ==
    \/ StrLess(Chars[x[1]], Chars[y[1]])
    \/ /\ x[1] = y[1]
       /\ \/ DeclaredPosition(enum, x[2]) < DeclaredPosition(enum, y[2])
          \/ /\ DeclaredPosition(enum, x[2]) = DeclaredPosition(enum, y[2])
             /\ StrLess(Chars[x[2]], Chars[y[2]])

\* key x is printed before key y under "both components alphabetical"
BeforeAlphabetical(x, y) ==
    \/ StrLess(Chars[x[1]], Chars[y[1]])
    \/ x[1] = y[1] /\ StrLess(Chars[x[2]], Chars[y[2]])

\* the lines of one section of one method, in print order
SectionLines(section, method) ==
    SelectSeq(out, LAMBDA l : l.section = section /\ l.method = method)

TaxoLinesInEnumOrder ==
    LET ls == SectionLines("TAXONOMY x ALGORITHM", "prioritization")
    IN  \A a, b \in 1..Len(ls) : a < b => BeforeByEnum(ALGO_KEYS, ls[a].key, ls[b].key)

TaxoLinesAlphabetical ==
    LET ls == SectionLines("TAXONOMY x ALGORITHM", "prioritization")
    IN  \A a, b \in 1..Len(ls) : a < b => BeforeAlphabetical(ls[a].key, ls[b].key)

MetricLinesInEnumOrder ==
    \A m \in Range(METHODS) :
        LET ls == SectionLines("TAXONOMY x METRIC", m)
        IN  \A a, b \in 1..Len(ls) :
                a < b => BeforeByEnum(metric_order_of(m), ls[a].key, ls[b].key)

\* C2 as claimed: all three label-pair listings are printed by first
\* component alphabetically, then the second's declared position
C2_Original_AllPairListingsInEnumOrder ==
    pc = "done" => (TaxoLinesInEnumOrder /\ MetricLinesInEnumOrder)

\* C2 (amended): the two taxonomy x metric listings are printed by taxonomy
\* alphabetically, then the metric's position in the method's metric_order
\* (undeclared labels last, alphabetical as the final tiebreak); the
\* taxonomy x algorithm listing is printed by taxonomy alphabetically, then
\* algorithm label alphabetically, not by ALGO_KEYS position.
C2_PairListingOrder ==
    pc = "done" => (TaxoLinesAlphabetical /\ MetricLinesInEnumOrder)

\* two taxonomy x metric lines of one taxonomy whose metric_order order is
\* the reverse of their alphabetical order
C2_Witness ==
    /\ prog = "metrics" /\ pc = "done"
    /\ \E m \in Range(METHODS) :
           LET ls == SectionLines("TAXONOMY x METRIC", m)
           IN  \E a, b \in 1..Len(ls) :
                   /\ a < b
                   /\ ls[a].key[1] = ls[b].key[1]
                   /\ StrLess(Chars[ls[b].key[2]], Chars[ls[a].key[2]])

\* two taxonomy x algorithm lines of one taxonomy printed against ALGO_KEYS order
C2_WitnessTaxonomy ==
    /\ prog = "taxonomy" /\ pc = "done"
    /\ ~TaxoLinesInEnumOrder

\* the row a paper id names
RowOfPaper(x) == table[PaperNumber(x)]

\* the paper type trims to exactly 'PS' and the lower-cased method cell
\* contains the keyword of method
EligibleFor(method, row) ==
    /\ row[COL_Y] # NaN
    /\ Strip(row[COL_Y]) = <<"P","S">>
    /\ row[COL_Z] # NaN
    /\ Contains(Chars[method], Lower(row[COL_Z]))

\* every paper id held for a method, wherever it is held
PapersHeld(method) ==
    (IF prog = "taxonomy" /\ method = "prioritization"
     THEN {paper_id_from_index(filtered[n]) : n \in 1..Len(filtered)}
          \cup DOMAIN obj_map
          \cup UNION {Range(pair_map[k]) : k \in DOMAIN pair_map}
     ELSE {})
    \cup
    (IF prog = "metrics"
     THEN UNION {Range(metric_to_papers[method][k]) : k \in DOMAIN metric_to_papers[method]}
          \cup UNION {Range(tax_metric_to_papers[method][k]) :
                         k \in DOMAIN tax_metric_to_papers[method]}
     ELSE {})
    \cup
    (IF prog = "sut"
     THEN UNION {per_method[method][c] : c \in Range(CATEGORY_ORDER)}
     ELSE {})

\* the paper ids printed under a method
PapersPrinted(method) ==
    UNION {{SubSeq(x, 1, 6) \o str_of_int(PaperNumber(x)) : x \in Range(out[n].items)} :
              n \in {k \in 1..Len(out) : out[k].method = method}}

\* the paper ids of the lines of one section and key of a method
PrintedUnder(section, method, key) ==
    UNION {Range(out[n].items) :
              n \in {k \in 1..Len(out) : /\ out[k].section = section
                                         /\ out[k].method = method
                                         /\ out[k].key = key}}

\* C10: a paper id is held or printed under a method only if its row's
\* paper type trims to exactly 'PS' and its lower-cased method cell contains
\* the method's keyword; a row naming both methods is aggregated under both
\* in the metrics and SUT reports.
C10_RowSelectionFilter ==
    /\ \A m \in Range(METHODS) :
           \A x \in PapersHeld(m) \cup PapersPrinted(m) : EligibleFor(m, RowOfPaper(x))
    /\ (prog = "metrics" /\ pc = "done" /\ Readable(COL_AG)) =>
           \A n \in 1..Len(table) :
               (\A m \in Range(METHODS) : EligibleFor(m, table[n])) =>
                   \A m \in Range(METHODS) :
                       \A label \in norm_metrics(m, table[n][COL_AG]) :
                           paper_id_from_index(n - 1) \in PrintedUnder("METRICS", m, label)
    /\ (prog = "sut" /\ pc = "done" /\ Readable(COL_AD)) =>
           \A n \in 1..Len(table) :
               (\A m \in Range(METHODS) : EligibleFor(m, table[n])) =>
                   \A m \in Range(METHODS) :
                       \A c \in categorize_sut_tokens(sut_split_multi(table[n][COL_AD])) :
                           paper_id_from_index(n - 1) \in PrintedUnder("SUT", m, c)

\* a row naming both methods printed under both, beside a row of the wrong
\* paper-type case that is printed nowhere
C10_Witness ==
    /\ prog = "metrics" /\ pc = "done"
    /\ \E n \in 1..Len(table) :
           /\ \A m \in Range(METHODS) :
                  /\ EligibleFor(m, table[n])
                  /\ paper_id_from_index(n - 1) \in PapersPrinted(m)
    /\ \E n \in 1..Len(table) :
           /\ table[n][COL_Y] = <<"p","s">>
           /\ \A m \in Range(METHODS) : paper_id_from_index(n - 1) \notin PapersPrinted(m)

(***************************************************************************)
(* Claims about the bibliography                                           *)
(***************************************************************************)
FieldNames(e) == {e.fields[k][1] : k \in 1..Len(e.fields)}
FieldValues(e, name) == {e.fields[k][2] : k \in {j \in 1..Len(e.fields) : e.fields[j][1] = name}}

\* 'paper_' followed by n in decimal
KeyOfNumber(n) ==
    <<"p","a","p","e","r","_">> \o (IF n < 10 THEN <<DIGITS[n + 1]>>
                  ELSE <<DIGITS[(n \div 10) + 1], DIGITS[(n % 10) + 1]>>)

\* the entry is the one the claim describes for the row at 1-based position n
EntryFitsRow(e, n) ==
    LET row == table[n]
        head == <<"@">> \o e.entry_type \o <<"{">> \o e.bib_key \o <<",">>
    IN  /\ e.bib_key = KeyOfNumber(n)
        /\ e.entry_type = <<"i","n","p","r","o","c","e","e","d","i","n","g","s">> <=> ~CellBlank(row[COL_D])
        /\ e.entry_type = <<"a","r","t","i","c","l","e">> <=> CellBlank(row[COL_D])
        /\ SubSeq(e.text, 1, Len(head)) = head
        /\ e.entry_type = <<"i","n","p","r","o","c","e","e","d","i","n","g","s">> =>
               /\ FieldValues(e, "booktitle") = {CellTrimmed(row[COL_D])}
               /\ "journal" \notin FieldNames(e)
        /\ e.entry_type = <<"a","r","t","i","c","l","e">> =>
               /\ "booktitle" \notin FieldNames(e)
               /\ FieldValues(e, "journal") =
                      (IF CellBlank(row[COL_O]) THEN {} ELSE {CellTrimmed(row[COL_O])})

\* C11: the bibliography holds exactly one entry per readable row, in row
\* order, keyed paper_<row index + 1>; the entry is inproceedings iff the
\* booktitle cell is non-empty and article otherwise; an inproceedings entry
\* carries the booktitle and no journal, an article the journal when it is
\* non-empty and no booktitle; a row with no usable field still has its entry.
C11_OneEntryPerReadableRow ==
    prog = "bib" =>
        /\ Len(out_lines) = (IF ncols > COL_O THEN i ELSE 0)
        /\ \A n \in 1..Len(out_lines) : EntryFitsRow(out_lines[n], n)

\* a finished bibliography holding an inproceedings entry of a row that also
\* names a journal, and the entry of a row with no usable field
C11_Witness ==
    /\ prog = "bib" /\ pc = "done"
    /\ \E n \in 1..Len(out_lines) :
           /\ out_lines[n].entry_type = <<"i","n","p","r","o","c","e","e","d","i","n","g","s">>
           /\ ~CellBlank(table[n][COL_O])
    /\ \E n \in 1..Len(out_lines) :
           /\ table[n] = BlankBibRow
           /\ out_lines[n].fields = <<>>
           /\ out_lines[n].text = <<"@","a","r","t","i","c","l","e","{">> \o KeyOfNumber(n) \o <<",", "\n", "\n", "}", "\n">>

(***************************************************************************)
(* Claims about every script                                               *)
(***************************************************************************)
\* the loop the run is in cannot read the columns it needs from a row
RowUnreadable ==
    \/ prog = "taxonomy" /\ pc = "filter" /\ ncols <= COL_Z
    \/ prog = "taxonomy" /\ pc = "build" /\ ncols <= COL_AC
    \/ prog = "metrics" /\ pc = "rows" /\ ncols <= COL_AG
    \/ prog = "sut" /\ pc = "rows" /\ ncols <= COL_AD
    \/ prog = "bib" /\ pc = "rows" /\ ncols <= COL_O

\* everything a row can contribute to
Aggregates ==
    <<filtered, pair_map, obj_map, metric_to_papers, tax_metric_to_papers, per_method,
      out_lines>>

\* the run is over and its last loop has consumed every row given to it
RunComplete ==
    pc = "done" => i = (IF prog = "taxonomy" THEN Len(filtered) ELSE Len(table))

\* C13: a step that consumes a row whose required columns cannot be read
\* leaves every aggregation mapping and the bibliography as they were and
\* stays in the loop, which goes on to the next row; a finished run has
\* consumed every row.
C13_UnreadableRowSkipped ==
    /\ []RunComplete
    /\ [][(RowUnreadable /\ i' = i + 1) =>
              (Aggregates' = Aggregates /\ pc' = pc /\ prog' = prog)]_vars

\* the metrics report finished over a table too narrow for the metrics
\* column: an eligible row is there, every row was consumed, nothing listed
C13_Witness ==
    /\ prog = "metrics" /\ pc = "done"
    /\ ncols <= COL_AG
    /\ \E n \in 1..Len(table) : EligibleFor("prioritization", table[n])
    /\ i = Len(table)
    /\ out = <<>>

\* the bibliography finished over a table too narrow for the journal column
C13_WitnessBib ==
    /\ prog = "bib" /\ pc = "done"
    /\ ncols <= COL_O
    /\ \E n \in 1..Len(table) : table[n] # BlankBibRow
    /\ i = Len(table)
    /\ out_lines = <<>> /\ bib_file = <<>>

\* every paper id held in a map or in the bibliography
IdsHeld ==
    DOMAIN obj_map
    \cup UNION {Range(pair_map[k]) : k \in DOMAIN pair_map}
    \cup UNION {UNION {Range(metric_to_papers[m][k]) : k \in DOMAIN metric_to_papers[m]} :
                   m \in DOMAIN metric_to_papers}
    \cup UNION {UNION {Range(tax_metric_to_papers[m][k]) :
                          k \in DOMAIN tax_metric_to_papers[m]} :
                   m \in DOMAIN tax_metric_to_papers}
    \cup UNION {UNION {per_method[m][c] : c \in DOMAIN per_method[m]} :
                   m \in DOMAIN per_method}
    \cup {out_lines[n].bib_key : n \in 1..Len(out_lines)}

\* a printed item without the ' [multi-obj]' tag it may end with
Undecorated(x) ==
    LET tag == <<" ","[","m","u","l","t","i","-","o","b","j","]">>
    IN  IF Len(x) > Len(tag) /\ SubSeq(x, Len(x) - Len(tag) + 1, Len(x)) = tag
        THEN SubSeq(x, 1, Len(x) - Len(tag))
        ELSE x

\* the paper ids printed
IdsPrinted == UNION {{Undecorated(x) : x \in Range(out[n].items)} : n \in 1..Len(out)}

\* zero-based position in the table of the row the current loop step handles
RowPosition == IF prog = "taxonomy" /\ pc = "build" THEN filtered[i + 1] ELSE i

\* an id of a row of the table that is not blank, written paper_<position>
IdOfNonBlankRow(x) ==
    /\ PaperNumber(x) \in 1..Len(table)
    /\ x = KeyOfNumber(PaperNumber(x))
    /\ table[PaperNumber(x)] \notin {BlankRow, BlankBibRow} \/ prog = "bib"

\* C14: the only id a step adds anywhere is paper_<p+1>, p the zero-based
\* position of the row the step handles; the k-th bibliography entry of a
\* readable table is paper_<k>; and every id held or printed is the position
\* of a row that is there, so rows passed over leave gaps in the numbering.
C14_IdFromRowPosition ==
    /\ [](\A x \in IdsHeld \cup IdsPrinted : IdOfNonBlankRow(x))
    /\ [](\A n \in 1..Len(out_lines) : out_lines[n].bib_key = KeyOfNumber(n))
    /\ [][IdsHeld' # IdsHeld =>
              IdsHeld' \ IdsHeld = {KeyOfNumber(RowPosition + 1)}]_vars

\* a finished report that lists the third or a later row and no row before
\* it, although the first row is not blank
C14_Witness ==
    /\ prog \in {"taxonomy", "metrics", "sut"} /\ pc = "done"
    /\ table[1] # BlankRow
    /\ \E n \in 3..Len(table) : IdsPrinted = {KeyOfNumber(n)}

(***************************************************************************)
(* Claims about the cross-tabulations                                      *)
(***************************************************************************)
\* the taxonomy x algorithm keys that list paper id x
KeysListing(x) == {k \in DOMAIN pair_map : x \in Range(pair_map[k])}

\* the keys the row at 1-based position n is to be listed under: the cross
\* product of its label sets when it is an eligible, readable row
KeysOwed(n) ==
    IF ncols > COL_AC /\ EligibleFor("prioritization", table[n])
    THEN match_taxonomy_labels(table[n][COL_AA]) \X match_algorithm_labels(table[n][COL_AB])
    ELSE {}

\* C15: after build_pairs, paper p is listed under (t, a) iff the row of p
\* is eligible and has t among its taxonomy labels and a among its algorithm
\* labels; no key has an empty list, in the map or in print, and each
\* non-empty key is printed once with its list; the row 'coverage' /
\* 'greedy, meta' alone gives (coverage, greedy) and (coverage, meta), each
\* with paper_1.
C15_CrossProductPerRow ==
    /\ prog = "taxonomy" => \A k \in DOMAIN pair_map : pair_map[k] # <<>>
    /\ (prog = "taxonomy" /\ pc \in {"print", "done"}) =>
           /\ DOMAIN pair_map \subseteq Range(TAXONOMY_KEYS) \X Range(ALGO_KEYS)
           /\ \A n \in 1..Len(table) : KeysListing(KeyOfNumber(n)) = KeysOwed(n)
    /\ (prog = "taxonomy" /\ pc = "done") =>
           /\ {out[n].key : n \in 1..Len(out)} = DOMAIN pair_map
           /\ \A n \in 1..Len(out) :
                  /\ \A m \in 1..Len(out) : out[m].key = out[n].key => m = n
                  /\ out[n].count = Len(pair_map[out[n].key])
                  /\ Len(out[n].items) = out[n].count
                  /\ \A m \in 1..Len(out[n].items) :
                         Undecorated(out[n].items[m]) = pair_map[out[n].key][m]
           /\ (/\ ncols > COL_AC
               /\ table[1] = MakeRow(<<"P","S">>, <<"p","r","i","o","r","i","t","i","z","a","t","i","o","n">>, <<"c","o","v","e","r","a","g","e">>, <<"g","r","e","e","d","y",","," ","m","e","t","a">>,
                                     NaN, NaN, NaN)
               /\ \A n \in 2..Len(table) : table[n] = BlankRow) =>
                  {<<out[n].key, out[n].items>> : n \in 1..Len(out)} =
                      {<< <<"coverage", "greedy">>, <<<<"p","a","p","e","r","_","1">>>> >>,
                       << <<"coverage", "meta">>, <<<<"p","a","p","e","r","_","1">>>> >>}

\* the table of the claim: one row, 'coverage' and 'greedy, meta'
C15_Witness ==
    /\ prog = "taxonomy" /\ pc = "done" /\ ncols > COL_AC
    /\ table[1] = MakeRow(<<"P","S">>, <<"p","r","i","o","r","i","t","i","z","a","t","i","o","n">>, <<"c","o","v","e","r","a","g","e">>, <<"g","r","e","e","d","y",","," ","m","e","t","a">>,
                          NaN, NaN, NaN)
    /\ \A n \in 2..Len(table) : table[n] = BlankRow
    /\ Len(out) = 2

\* two labels on each side: four keys from one row, beside an eligible row
\* with no algorithm label that adds none
C15_WitnessProduct ==
    /\ prog = "taxonomy" /\ pc = "done"
    /\ \E n \in 1..Len(table) : Cardinality(KeysListing(KeyOfNumber(n))) >= 2
    /\ \E n \in 1..Len(table) :
           /\ EligibleFor("prioritization", table[n])
           /\ match_algorithm_labels(table[n][COL_AB]) = {}
           /\ KeysListing(KeyOfNumber(n)) = {}

\* the papers the metrics report holds under a metric of a method
UnderMetric(method, metric) ==
    IF metric \in DOMAIN metric_to_papers[method]
    THEN Range(metric_to_papers[method][metric])
    ELSE {}

\* the papers it holds under some (taxonomy, metric) key of a method
UnderSomePair(method) ==
    UNION {Range(tax_metric_to_papers[method][k]) : k \in DOMAIN tax_metric_to_papers[method]}

\* the papers it holds under some metric of a method
UnderSomeMetric(method) ==
    UNION {Range(metric_to_papers[method][k]) : k \in DOMAIN metric_to_papers[method]}

\* C16: in the metrics report, at every point of the run and in print,
\* every paper under a (taxonomy, metric) key of a method is also under that
\* metric in the per-metric listing of the same method; a row with no
\* matched metric for a method is in neither listing of that method.
C16_PairListingWithinMetricListing ==
    prog = "metrics" =>
        \A method \in Range(METHODS) :
            /\ \A k \in DOMAIN tax_metric_to_papers[method] :
                   Range(tax_metric_to_papers[method][k]) \subseteq UnderMetric(method, k[2])
            /\ \A n \in 1..Len(out) :
                   (out[n].section = "TAXONOMY x METRIC" /\ out[n].method = method) =>
                       Range(out[n].items) \subseteq
                           PrintedUnder("METRICS", method, out[n].key[2])
            /\ \A n \in 1..Len(table) :
                   (ncols > COL_AG /\ norm_metrics(method, table[n][COL_AG]) = {}) =>
                       KeyOfNumber(n) \notin UnderSomeMetric(method) \cup UnderSomePair(method)

\* a finished report where the converse fails: a paper printed under a
\* metric and under no pair, beside a paper printed under a pair
C16_Witness ==
    /\ prog = "metrics" /\ pc = "done"
    /\ \E method \in Range(METHODS) :
           /\ UnderSomeMetric(method) \ UnderSomePair(method) # {}
           /\ UnderSomePair(method) # {}
           /\ \E n \in 1..Len(out) :
                  out[n].section = "TAXONOMY x METRIC" /\ out[n].method = method

\* a finished report of a table with a row of the method whose metrics cell
\* matches no metric, beside a row that is listed
C16_WitnessNoMetric ==
    /\ prog = "metrics" /\ pc = "done" /\ ncols > COL_AG
    /\ \E n \in 1..Len(table) :
           /\ EligibleFor("prioritization", table[n])
           /\ ~is_empty(table[n][COL_AG])
           /\ norm_metrics("prioritization", table[n][COL_AG]) = {}
    /\ UnderSomePair("prioritization") # {}
====
